---- MODULE Spec2Model ----
(***************************************************************************)
(* CryptoChat node: the persistent store (node/src/storage/mod.rs) and the *)
(* overlay runtime (node/src/overlay/runtime.rs) that replicates envelopes *)
(* to peers with per-peer acknowledgement and retry; the message pipeline  *)
(* with its queue and receipts (node/src/messaging), the PGP envelope      *)
(* (core/src/pgp_envelope.rs) and the account file (account_store.rs).     *)
(*                                                                         *)
(* Specifications:                                                         *)
(*   StoreSpec      the NodeStorage API called directly                    *)
(*   Spec           the overlay runtime's event loop on top of the store   *)
(*   LiveSpec       the event loop of a runtime that stays up, with the    *)
(*                  fairness of its timer and of the request/response      *)
(*                  answers                                                *)
(*   DiscoverySpec  the peer set kept by the DiscoveryService              *)
(*   PipelineSpec   MessagePipeline: send, receive, keypair                *)
(*   ReceiptSpec    the receipt log of a pipeline with a keypair           *)
(*   QueueSpec      MessageQueue called directly                           *)
(*   EnvelopeSpec   wrapping and unwrapping one message                    *)
(*   AccountSpec    create_account and login on one account file           *)
(*   RaceSpec       concurrent callers of one NodeStorage                  *)
(*   LoopSpec       the event loop with unknown request ids and a Shutdown *)
(*                  that overtakes a response                              *)
(*   RotationSpec   send_message interleaved with set_keypair              *)
(***************************************************************************)
EXTENDS Integers, Sequences, FiniteSets, Bags, TLC

\* ---------------------------------------------------------------- bounds
MaxMsg == 2            \* message ids 1..MaxMsg the store is called with directly
MaxTraffic == 1        \* message ids 1..MaxTraffic the runtime is asked to publish or receives
MaxPeer == 2           \* peer ids 1..MaxPeer
MaxBody == 2           \* distinct envelope contents per message id
MaxPeerList == 2       \* longest peers slice handed to insert_outbound directly
MaxStoredMs == 1       \* wall-clock readings 0..MaxStoredMs
MaxReplication == 2    \* configured replication_factor 0..MaxReplication
MaxDeliveries == 2     \* deliveries of one envelope counted up to MaxDeliveries
MaxKey == 2            \* keypairs 1..MaxKey
MaxSend == 2           \* message ids (uuids) 1..MaxSend the pipeline generates or is handed
MaxReceipts == 2       \* receipts of one message id kept apart up to MaxReceipts
MaxForeign == 1        \* message ids MaxSend+1..MaxSend+MaxForeign generated by other devices
MaxSendBody == 1       \* bodies 1..MaxSendBody handed to send_message
MaxConversation == 2   \* conversation ids 1..MaxConversation
MaxDevice == 2         \* device ids 1..MaxDevice
MaxChar == 2           \* the characters 1..MaxChar passwords are written in
MaxPasswordLen == 4    \* longest password tried
MaxSalt == 2           \* outcomes 1..MaxSalt of each random salt and nonce
MaxUser == 1           \* usernames 1..MaxUser
MaxTask == 2           \* callers 1..MaxTask holding clones of one NodeStorage
MaxQueue == 3          \* longest queue built through the MessageQueue API
MaxAttempts == 2       \* attempts counted up to MaxAttempts

\* create_account: `password.len() < 4`
MinPasswordLen == 4

MessageIds == 1..MaxMsg
PeerIds == 1..MaxPeer
Envelopes == [message_id : MessageIds, payload : 1..MaxBody]
TrafficIds == 1..MaxTraffic
Traffic == [message_id : TrafficIds, payload : 1..MaxBody]

RECURSIVE SeqsUpTo(_, _)
SeqsUpTo(S, n) ==
    IF n = 0 THEN {<<>>}
    ELSE LET shorter == SeqsUpTo(S, n - 1)
         IN shorter \cup {Append(s, x) : s \in {t \in shorter : Len(t) = n - 1}, x \in S}

Range(s) == {s[i] : i \in 1..Len(s)}
Contains(s, x) == \E i \in 1..Len(s) : s[i] = x
Max(a, b) == IF a >= b THEN a ELSE b
Min(a, b) == IF a <= b THEN a ELSE b
Take(s, n) == SubSeq(s, 1, Min(n, Len(s)))

\* ------------------------------------------------------------ variables
VARIABLES
    db,                   \* sled::Db as the process sees it: the two trees
    disk,                 \* what of db is durable (survives a crash)
    phase,                \* "stopped" | "running": the process / the run task
    peers,                \* DiscoveryService.peers, in the HashSet's iteration order
    config,               \* OverlayConfig.replication_factor
    replication_factor,   \* OverlayRuntime.replication_factor
    pending_replications, \* OverlayRuntime.pending_replications, as the bag of its values
    last,                 \* the call or event handled by the last step and what it produced
    inserted,             \* history: per message id the last direct insert_outbound and the acks since
    delivered,            \* history: per message id the envelope last stored inbound and how often in a row
    local_keypair,        \* MessagePipeline.local_keypair: 0 for None, else the keypair
    queue,                \* MessagePipeline.queue: the VecDeque of QueuedMessage, front first
    receipts,             \* MessagePipeline.receipts: message id -> its receipts, oldest first
    uuids,                \* how many message ids Uuid::new_v4 has handed to this pipeline
    out,                  \* the pipeline call handled by the last step and what it returned
    wire,                 \* envelope layer: the message wrapped, the envelope as it travels, the unwrap result
    account_file,         \* account.json: <<>> while absent, else <<the saved text>>
    login_out,            \* account store: the call handled by the last step and what it returned
    tasks,                \* callers sharing cloned NodeStorage handles: where each one is in its call
    sends                 \* callers sharing one MessagePipeline: the send_message each one is in

pipeline_vars == <<local_keypair, queue, receipts, uuids, out>>
envelope_vars == <<wire>>
account_vars == <<account_file, login_out>>
caller_vars == <<tasks, sends>>

vars == <<db, disk, phase, peers, config, replication_factor, pending_replications, last,
          inserted, delivered, local_keypair, queue, receipts, uuids, out,
          wire, account_file, login_out, tasks, sends>>

\* ------------------------------------------------- PeerId <-> String
\* PeerId::to_string gives a base58 text; its order is the order Vec::sort uses.
to_string(peer) == <<"12D3KooW", peer>>

\* PeerId::from_str: Ok(peer) for a text to_string produced, Err otherwise.
from_str_ok(peer_str) == Len(peer_str) = 2 /\ peer_str[1] = "12D3KooW" /\ peer_str[2] \in PeerIds
from_str(peer_str) == peer_str[2]

StrLeq(a, b) == a[2] <= b[2]

RECURSIVE InsertSorted(_, _)
InsertSorted(x, s) ==
    IF s = <<>> THEN <<x>>
    ELSE IF StrLeq(x, Head(s)) THEN <<x>> \o s
    ELSE <<Head(s)>> \o InsertSorted(x, Tail(s))

\* Vec::sort
RECURSIVE sort(_)
sort(s) == IF s = <<>> THEN <<>> ELSE InsertSorted(Head(s), sort(Tail(s)))

\* Vec::dedup: drops consecutive repeats
RECURSIVE dedup(_)
dedup(s) ==
    IF Len(s) <= 1 THEN s
    ELSE IF s[1] = s[2] THEN dedup(Tail(s))
    ELSE <<s[1]>> \o dedup(Tail(s))

MapToString(ps) == [i \in 1..Len(ps) |-> to_string(ps[i])]

\* ------------------------------------------------------- sled trees
\* A tree is a function from the keys it holds to their values.
EmptyTree == [k \in {} |-> 0]
Put(tree, k, v) == [x \in (DOMAIN tree) \cup {k} |-> IF x = k THEN v ELSE tree[x]]
Remove(tree, k) == [x \in (DOMAIN tree) \ {k} |-> tree[x]]

EmptyDb == [replication |-> EmptyTree, inbound |-> EmptyTree]

\* Tree::flush: everything written so far becomes durable.
flush_lost(durable, cache) == durable
flush(durable, cache) == cache

\* ------------------------------------------------------ NodeStorage
\* insert_outbound that leaves the pending set of a record it finds as it was.
insert_outbound_keep(tree, message_id, envelope, target_peers) ==
    IF message_id \in DOMAIN tree
    THEN Put(tree, message_id, [tree[message_id] EXCEPT !.envelope = envelope])
    ELSE Put(tree, message_id, [envelope |-> envelope,
                                pending_peers |-> dedup(sort(MapToString(target_peers))),
                                acked_peers |-> <<>>])

insert_outbound(tree, message_id, envelope, target_peers) ==
    LET record == IF message_id \in DOMAIN tree
                  THEN [tree[message_id] EXCEPT !.envelope = envelope]
                  ELSE [envelope |-> envelope, pending_peers |-> <<>>, acked_peers |-> <<>>]
        pending == dedup(sort(MapToString(target_peers)))
    IN  Put(tree, message_id, [record EXCEPT !.pending_peers = pending])

\* mark_peer_success that writes the record back even when nothing is pending.
mark_peer_success_keep(tree, message_id, peer) ==
    IF message_id \notin DOMAIN tree THEN [tree |-> tree, ret |-> TRUE]
    ELSE LET existing == tree[message_id]
             peer_str == to_string(peer)
             pending == SelectSeq(existing.pending_peers, LAMBDA p : p # peer_str)
             acked == IF Contains(existing.acked_peers, peer_str)
                      THEN existing.acked_peers
                      ELSE Append(existing.acked_peers, peer_str)
             record == [existing EXCEPT !.pending_peers = pending, !.acked_peers = acked]
         IN  [tree |-> Put(tree, message_id, record), ret |-> (pending = <<>>)]

\* mark_peer_success that records the ack but leaves the peer pending.
mark_peer_success_stay(tree, message_id, peer) ==
    IF message_id \notin DOMAIN tree THEN [tree |-> tree, ret |-> TRUE]
    ELSE LET existing == tree[message_id]
             peer_str == to_string(peer)
             acked == IF Contains(existing.acked_peers, peer_str)
                      THEN existing.acked_peers
                      ELSE Append(existing.acked_peers, peer_str)
             record == [existing EXCEPT !.acked_peers = acked]
         IN  [tree |-> Put(tree, message_id, record), ret |-> FALSE]

\* The tree after the call and the returned bool.
mark_peer_success(tree, message_id, peer) ==
    IF message_id \notin DOMAIN tree THEN [tree |-> tree, ret |-> TRUE]
    ELSE LET existing == tree[message_id]
             peer_str == to_string(peer)
             pending == SelectSeq(existing.pending_peers, LAMBDA p : p # peer_str)
             acked == IF Contains(existing.acked_peers, peer_str)
                      THEN existing.acked_peers
                      ELSE Append(existing.acked_peers, peer_str)
             record == [existing EXCEPT !.pending_peers = pending, !.acked_peers = acked]
         IN  [tree |-> IF pending = <<>> THEN Remove(tree, message_id)
                       ELSE Put(tree, message_id, record),
              ret |-> (pending = <<>>)]

ParsePeers(strs) ==
    LET ok == SelectSeq(strs, from_str_ok)
    IN  [i \in 1..Len(ok) |-> from_str(ok[i])]

\* load_pending without the `continue` on an empty peer list.
RECURSIVE load_pending_noskip(_, _)
load_pending_noskip(tree, k) ==
    IF k > MaxMsg THEN <<>>
    ELSE LET here == IF k \in DOMAIN tree
                     THEN << [message_id |-> k,
                              envelope |-> tree[k].envelope,
                              pending_peers |-> ParsePeers(tree[k].pending_peers)] >>
                     ELSE <<>>
         IN  here \o load_pending_noskip(tree, k + 1)

\* tree.iter() visits the keys in ascending order.
RECURSIVE load_pending_from(_, _)
load_pending_from(tree, k) ==
    IF k > MaxMsg THEN <<>>
    ELSE LET here == IF k \in DOMAIN tree /\ ParsePeers(tree[k].pending_peers) # <<>>
                     THEN << [message_id |-> k,
                              envelope |-> tree[k].envelope,
                              pending_peers |-> ParsePeers(tree[k].pending_peers)] >>
                     ELSE <<>>
         IN  here \o load_pending_from(tree, k + 1)

load_pending(tree) == load_pending_from(tree, 1)

\* store_inbound that refuses a message id it already holds.
store_inbound_once(tree, envelope, stored_ms) ==
    IF envelope.message_id \in DOMAIN tree THEN tree
    ELSE Put(tree, envelope.message_id, [envelope |-> envelope, stored_ms |-> stored_ms])

store_inbound(tree, envelope, stored_ms) ==
    Put(tree, envelope.message_id, [envelope |-> envelope, stored_ms |-> stored_ms])

\* ------------------------------------------------- what a step reports
NoEnvelope == [message_id |-> 0, payload |-> 0]

\* op: the call or event handled; ret: the store call's result; loaded: what
\* load_pending returned; reply: the answer on a command's responder; accepted:
\* the EnvelopeResponse sent for an inbound request; events: the
\* ReplicationEvents broadcast, in order; sent: the requests handed to
\* request_response.send_request, in order.
NoCall ==
    [op |-> "none", message_id |-> 0, peer |-> 0, envelope |-> NoEnvelope,
     ret |-> "none", loaded |-> <<>>, reply |-> "none",
     accepted |-> "none", events |-> <<>>, sent |-> <<>>, queued |-> FALSE]

NoDelivery == [envelope |-> NoEnvelope, times |-> 0]

\* OverlayNetwork::initialize: RuntimeComponents.replication_factor
initialize(configured) == Max(configured, 1)

\* What a pipeline call reports: ret is "Ok" or the PipelineError; message_id and
\* body are those of the SendMessageResponse or of the returned PlaintextMessage;
\* payload and sender_cert are what receive_envelope was handed; emitted are the
\* receipts the call sent on receipt_tx, in order; returned is the Vec that
\* get_receipts gave back.
NoOut ==
    [op |-> "none", ret |-> "none", message_id |-> 0, body |-> 0,
     payload |-> <<>>, sender_cert |-> 0, emitted |-> <<>>, returned |-> <<>>]

\* What the envelope layer was last asked: op is "wrap", "alter", "tamper" or
\* "unwrap"; message, sender and recipient are what from_plaintext was handed;
\* envelope is the PgpEnvelope as it is now; keypair and sender_cert are what
\* into_plaintext was handed and result is what it returned.
NoWire ==
    [op |-> "none",
     message |-> [message_id |-> 0, conversation_id |-> 0, sender_device |-> 0,
                  created_ms |-> 0, body |-> 0],
     sender |-> 0, recipient |-> 0,
     envelope |-> [message_id |-> 0, conversation_id |-> 0, sender_fingerprint |-> <<>>,
                   sender_device |-> 0, created_ms |-> 0, encrypted_payload |-> <<>>],
     keypair |-> 0, sender_cert |-> 0,
     result |-> [ok |-> FALSE,
                 message |-> [message_id |-> 0, conversation_id |-> 0, sender_device |-> 0,
                              created_ms |-> 0, body |-> 0]]]

\* What an account store call reports: ret is "Ok" or the error's text;
\* secret_key is the key login returned. created_password and created_key are
\* history: what the create_account that wrote account.json was handed.
NoLogin ==
    [op |-> "none", password |-> <<>>, ret |-> "none", secret_key |-> <<>>,
     created_password |-> <<>>, created_key |-> <<>>]

\* No caller is inside a store call. base is the replication tree as it was
\* when the calls now in progress or just finished began; calls holds, per
\* caller, its call and how far it got.
NoTasks == [base |-> <<>>, calls |-> <<>>]

\* The parts of the program a specification does not exercise stay as built.
EnvelopeNew == wire = NoWire
AccountNew == account_file = <<>> /\ login_out = NoLogin
CallersNew == tasks = NoTasks /\ sends = <<>>

\* MessagePipeline::new
PipelineNew ==
    /\ local_keypair = 0
    /\ queue = <<>>
    /\ receipts = EmptyTree
    /\ uuids = 0
    /\ out = NoOut

NoInsert == [called |-> FALSE, envelope |-> NoEnvelope, peers |-> {}, marked |-> {}]

Init ==
    /\ db = EmptyDb
    /\ disk = EmptyDb
    /\ phase = "stopped"
    /\ peers = <<>>
    /\ config \in 0..MaxReplication
    /\ replication_factor = initialize(config)
    /\ pending_replications = EmptyBag
    /\ last = NoCall
    /\ inserted = [m \in MessageIds |-> NoInsert]
    /\ delivered = [m \in MessageIds |-> NoDelivery]
    /\ PipelineNew
    /\ EnvelopeNew /\ AccountNew /\ CallersNew

runtime_vars == <<peers, config, replication_factor, pending_replications, delivered>>

\* --------------------------------------------- the store API, called directly
\* NodeStorage::open after the process (re)starts.
Open ==
    /\ UNCHANGED <<pipeline_vars, envelope_vars, account_vars, caller_vars>>
    /\ phase = "stopped"
    /\ phase' = "running"
    /\ last' = [NoCall EXCEPT !.op = "open"]
    /\ UNCHANGED <<db, disk, inserted, runtime_vars>>

\* The process dies: what was not flushed is gone.
Crash ==
    /\ UNCHANGED <<pipeline_vars, envelope_vars, account_vars, caller_vars>>
    /\ phase = "running"
    /\ phase' = "stopped"
    /\ db' = disk
    /\ pending_replications' = EmptyBag
    /\ peers' = <<>>
    /\ last' = [NoCall EXCEPT !.op = "crash"]
    /\ UNCHANGED <<disk, inserted, delivered, config, replication_factor>>

\* A sled call that fails (Err) is taken to fail before it changed the tree.
ApiInsertOutbound(envelope, target_peers, io_ok) ==
    /\ UNCHANGED <<pipeline_vars, envelope_vars, account_vars, caller_vars>>
    /\ phase = "running"
    /\ LET message_id == envelope.message_id
           call == [NoCall EXCEPT !.op = "insert_outbound", !.message_id = message_id]
       IN  IF io_ok
           THEN /\ db' = [db EXCEPT !.replication =
                                insert_outbound(db.replication, message_id, envelope, target_peers)]
                /\ disk' = flush(disk, db')
                /\ last' = [call EXCEPT !.ret = "Ok"]
                /\ inserted' = [inserted EXCEPT ![message_id] =
                                    [called |-> TRUE, envelope |-> envelope,
                                     peers |-> Range(target_peers), marked |-> {}]]
           ELSE /\ last' = [call EXCEPT !.ret = "Err"]
                /\ UNCHANGED <<db, disk, inserted>>
    /\ UNCHANGED <<phase, runtime_vars>>

ApiMarkPeerSuccess(message_id, peer, io_ok) ==
    /\ UNCHANGED <<pipeline_vars, envelope_vars, account_vars, caller_vars>>
    /\ phase = "running"
    /\ LET call == [NoCall EXCEPT !.op = "mark_peer_success", !.message_id = message_id,
                                  !.peer = peer]
           res == mark_peer_success(db.replication, message_id, peer)
       IN  IF io_ok
           THEN /\ db' = [db EXCEPT !.replication = res.tree]
                /\ disk' = flush(disk, db')
                /\ last' = [call EXCEPT !.ret = IF res.ret THEN "Ok(true)" ELSE "Ok(false)"]
                /\ inserted' = [inserted EXCEPT ![message_id].marked =
                                    IF inserted[message_id].called THEN @ \cup {peer} ELSE @]
           ELSE /\ last' = [call EXCEPT !.ret = "Err"]
                /\ UNCHANGED <<db, disk, inserted>>
    /\ UNCHANGED <<phase, runtime_vars>>

ApiLoadPending(io_ok) ==
    /\ UNCHANGED <<pipeline_vars, envelope_vars, account_vars, caller_vars>>
    /\ phase = "running"
    /\ last' = IF io_ok
               THEN [NoCall EXCEPT !.op = "load_pending", !.ret = "Ok",
                                   !.loaded = load_pending(db.replication)]
               ELSE [NoCall EXCEPT !.op = "load_pending", !.ret = "Err"]
    /\ UNCHANGED <<db, disk, phase, inserted, runtime_vars>>

StoreNext ==
    \/ Open
    \/ Crash
    \/ \E e \in Envelopes, ps \in SeqsUpTo(PeerIds, MaxPeerList), ok \in BOOLEAN :
          ApiInsertOutbound(e, ps, ok)
    \/ \E m \in MessageIds, p \in PeerIds, ok \in BOOLEAN : ApiMarkPeerSuccess(m, p, ok)
    \/ \E ok \in BOOLEAN : ApiLoadPending(ok)

\* The store is exercised under the default configuration.
StoreInit == Init /\ config = MaxReplication

StoreSpec == StoreInit /\ [][StoreNext]_vars

\* ------------------------------------------------------ OverlayRuntime
\* ReplicationEvent values
PublishQueued(m) == [kind |-> "PublishQueued", message_id |-> m, peer |-> 0, reason |-> ""]
PublishAck(m, p) == [kind |-> "PublishAck", message_id |-> m, peer |-> p, reason |-> ""]
PublishFailed(m, r) == [kind |-> "PublishFailed", message_id |-> m, peer |-> 0, reason |-> r]
PublishRetry(m, p) == [kind |-> "PublishRetry", message_id |-> m, peer |-> p, reason |-> ""]

\* pending_replications maps the swarm's fresh OutboundRequestId of every
\* unanswered request to (message_id, peer). The ids are opaque and never reused,
\* so the map is kept as the bag of its values: one copy per request id.
Entry(m, p) == SetToBag({<<m, p>>})

\* in_flight that takes every pair to be in flight.
in_flight_always(replications, message_id, peer) == TRUE
in_flight_never(replications, message_id, peer) == FALSE
in_flight(replications, message_id, peer) == BagIn(<<message_id, peer>>, replications)

\* The orders in which a HashSet holding S may iterate.
Orders(S) == {o \in SeqsUpTo(S, Cardinality(S)) : Len(o) = Cardinality(S) /\ Range(o) = S}

\* The targets of a Publish: peers.into_iter().take(replication_factor.max(1)).
take_targets_all(order, factor) == order
take_targets(order, factor) == Take(order, Max(factor, 1))

\* The Publish fan-out loop over target_peers; st = [replications, sent].
RECURSIVE fan_out(_, _, _)
fan_out(targets, envelope, st) ==
    IF targets = <<>> THEN st
    ELSE LET peer == Head(targets)
             message_id == envelope.message_id
         IN  fan_out(Tail(targets), envelope,
                 IF in_flight(st.replications, message_id, peer) THEN st
                 ELSE [replications |-> st.replications (+) Entry(message_id, peer),
                       sent |-> Append(st.sent, [peer |-> peer, envelope |-> envelope])])

\* resend_pending whose inner loop stops after a record's first pending peer.
resend_record_first(record, pending, st) ==
    IF pending = <<>> THEN st
    ELSE LET peer == Head(pending)
         IN  IF in_flight(st.replications, record.message_id, peer) THEN st
             ELSE [replications |-> st.replications (+) Entry(record.message_id, peer),
                   events |-> Append(st.events, PublishRetry(record.message_id, peer)),
                   sent |-> Append(st.sent, [peer |-> peer, envelope |-> record.envelope])]

\* resend_pending that re-sends nothing.
resend_record_skip(record, pending, st) == st

\* resend_pending's inner loop over one record's pending_peers;
\* st = [replications, events, sent].
RECURSIVE resend_record(_, _, _)
resend_record(record, pending, st) ==
    IF pending = <<>> THEN st
    ELSE LET peer == Head(pending)
         IN  resend_record(record, Tail(pending),
                 IF in_flight(st.replications, record.message_id, peer) THEN st
                 ELSE [replications |-> st.replications (+) Entry(record.message_id, peer),
                       events |-> Append(st.events, PublishRetry(record.message_id, peer)),
                       sent |-> Append(st.sent, [peer |-> peer, envelope |-> record.envelope])])

RECURSIVE resend_pending(_, _)
resend_pending(records, st) ==
    IF records = <<>> THEN st
    ELSE resend_pending(Tail(records),
                        resend_record(Head(records), Head(records).pending_peers, st))

\* replay_pending / retry_pending: load_pending, then resend_pending; a failed
\* load is logged and nothing is sent.
Replay(op, io_ok) ==
    LET st == resend_pending(load_pending(db.replication),
                  [replications |-> pending_replications, events |-> <<>>, sent |-> <<>>])
    IN  IF io_ok
        THEN /\ pending_replications' = st.replications
             /\ last' = [NoCall EXCEPT !.op = op, !.ret = "Ok",
                                       !.events = st.events, !.sent = st.sent]
        ELSE /\ pending_replications' = pending_replications
             /\ last' = [NoCall EXCEPT !.op = op, !.ret = "Err"]

\* A start that enters the loop without replaying the pending set.
StartCold(io_ok) ==
    /\ UNCHANGED <<pipeline_vars, envelope_vars, account_vars, caller_vars>>
    /\ phase = "stopped"
    /\ phase' = "running"
    /\ pending_replications' = pending_replications
    /\ last' = [NoCall EXCEPT !.op = "start", !.ret = IF io_ok THEN "Ok" ELSE "Err"]
    /\ UNCHANGED <<db, disk, peers, config, replication_factor, inserted, delivered>>

\* OverlayHandle::start: the store is opened, a runtime with an empty in-flight
\* map is built and run() replays the pending set before it enters its loop.
Start(io_ok) ==
    /\ UNCHANGED <<pipeline_vars, envelope_vars, account_vars, caller_vars>>
    /\ phase = "stopped"
    /\ phase' = "running"
    /\ Replay("start", io_ok)
    /\ UNCHANGED <<db, disk, peers, config, replication_factor, inserted, delivered>>

\* retry_timer.tick()
RetryTick(io_ok) ==
    /\ UNCHANGED <<pipeline_vars, envelope_vars, account_vars, caller_vars>>
    /\ phase = "running"
    /\ Replay("retry", io_ok)
    /\ UNCHANGED <<db, disk, phase, peers, config, replication_factor, inserted, delivered>>

\* peers.is_empty() in the Publish arm
no_peers_never(set) == FALSE
no_peers(set) == set = <<>>

\* OverlayCommand::Publish
Publish(envelope, io_ok) ==
    /\ UNCHANGED <<pipeline_vars, envelope_vars, account_vars, caller_vars>>
    /\ phase = "running"
    /\ LET message_id == envelope.message_id
           call == [NoCall EXCEPT !.op = "publish", !.message_id = message_id,
                                  !.envelope = envelope]
           target_peers == take_targets(peers, replication_factor)
           st == fan_out(target_peers, envelope,
                         [replications |-> pending_replications, sent |-> <<>>])
       IN  IF no_peers(peers)
           THEN /\ last' = [call EXCEPT !.reply = "Err",
                               !.events = <<PublishFailed(message_id, "no peers available")>>]
                /\ UNCHANGED <<db, disk, pending_replications>>
           ELSE IF ~io_ok
           THEN /\ last' = [call EXCEPT !.reply = "Err", !.ret = "Err",
                               !.events = <<PublishFailed(message_id, "failed to persist envelope")>>]
                /\ UNCHANGED <<db, disk, pending_replications>>
           ELSE /\ db' = [db EXCEPT !.replication =
                              insert_outbound(db.replication, message_id, envelope, target_peers)]
                /\ disk' = flush(disk, db')
                /\ pending_replications' = st.replications
                /\ last' = [call EXCEPT !.reply = "Ok", !.ret = "Ok", !.sent = st.sent,
                               !.events = IF st.sent # <<>> THEN <<PublishQueued(message_id)>>
                                          ELSE <<>>]
    /\ UNCHANGED <<phase, peers, config, replication_factor, inserted, delivered>>

\* OverlayCommand::Dial: the swarm is asked to dial the address; a failure is
\* logged.
Dial(dial_ok) ==
    /\ UNCHANGED <<pipeline_vars, envelope_vars, account_vars, caller_vars>>
    /\ phase = "running"
    /\ last' = [NoCall EXCEPT !.op = "dial", !.ret = IF dial_ok THEN "Ok" ELSE "Err"]
    /\ UNCHANGED <<db, disk, phase, peers, config, replication_factor, pending_replications,
                   inserted, delivered>>

\* A Shutdown that signals done_tx and goes on with the loop.
ShutdownNoBreak ==
    /\ UNCHANGED <<pipeline_vars, envelope_vars, account_vars, caller_vars>>
    /\ phase = "running"
    /\ last' = [NoCall EXCEPT !.op = "shutdown", !.reply = "Ok"]
    /\ UNCHANGED <<db, disk, phase, peers, config, replication_factor, pending_replications,
                   inserted, delivered>>

\* OverlayCommand::Shutdown: the loop ends and the runtime is dropped.
Shutdown ==
    /\ UNCHANGED <<pipeline_vars, envelope_vars, account_vars, caller_vars>>
    /\ phase = "running"
    /\ phase' = "stopped"
    /\ peers' = <<>>
    /\ pending_replications' = EmptyBag
    /\ last' = [NoCall EXCEPT !.op = "shutdown", !.reply = "Ok"]
    /\ UNCHANGED <<db, disk, config, replication_factor, inserted, delivered>>

\* The run task has ended on a Shutdown and no new runtime was started since.
shut_down == phase = "stopped" /\ last.op \in {"shutdown", "publish_dropped", "dial_dropped"}

\* A publish that takes a command dropped with the channel for an accepted one.
PublishAfterShutdownOk(envelope, queued) ==
    /\ UNCHANGED <<pipeline_vars, envelope_vars, account_vars, caller_vars>>
    /\ shut_down
    /\ last' = [NoCall EXCEPT !.op = "publish_dropped", !.message_id = envelope.message_id,
                              !.envelope = envelope, !.queued = queued,
                              !.reply = IF queued THEN "Ok" ELSE "Err"]
    /\ UNCHANGED <<db, disk, phase, peers, config, replication_factor, pending_replications,
                   inserted, delivered>>

\* ReplicationService::publish on a runtime that was shut down. When the command
\* still got into the channel behind the Shutdown (queued), it is dropped with
\* the channel and the caller, finding its responder gone, reports
\* PublishFailed "publish channel error"; when the channel was closed already the
\* send fails and the caller returns the error.
PublishAfterShutdown(envelope, queued) ==
    /\ UNCHANGED <<pipeline_vars, envelope_vars, account_vars, caller_vars>>
    /\ shut_down
    /\ last' = [NoCall EXCEPT !.op = "publish_dropped", !.message_id = envelope.message_id,
                              !.envelope = envelope, !.reply = "Err", !.queued = queued,
                              !.events = IF queued
                                         THEN <<PublishFailed(envelope.message_id,
                                                              "publish channel error")>>
                                         ELSE <<>>]
    /\ UNCHANGED <<db, disk, phase, peers, config, replication_factor, pending_replications,
                   inserted, delivered>>

\* TransportHandle::dial on a runtime that was shut down: the command is dropped
\* with the channel, or the send fails.
DialAfterShutdown ==
    /\ UNCHANGED <<pipeline_vars, envelope_vars, account_vars, caller_vars>>
    /\ shut_down
    /\ last' = [NoCall EXCEPT !.op = "dial_dropped"]
    /\ UNCHANGED <<db, disk, phase, peers, config, replication_factor, pending_replications,
                   inserted, delivered>>

\* DiscoveryService::insert_peer (KademliaEvent::RoutingUpdated, or a bootstrap
\* peer): a peer the set already holds changes nothing; a new one may land
\* anywhere and, when the table grows, reorder the others.
insert_peer(set, peer, order) == IF Contains(set, peer) THEN set ELSE order

\* remove_peer that leaves the peer in the set.
remove_peer_none(set, peer) == set

\* DiscoveryService::remove_peer (KademliaEvent::UnroutablePeer): the others
\* stay where they are.
remove_peer(set, peer) == SelectSeq(set, LAMBDA q : q # peer)

RoutingUpdated(peer, order) ==
    /\ UNCHANGED <<pipeline_vars, envelope_vars, account_vars, caller_vars>>
    /\ phase = "running"
    /\ order \in Orders(Range(peers) \cup {peer})
    /\ peers' = insert_peer(peers, peer, order)
    /\ last' = [NoCall EXCEPT !.op = "routing_updated", !.peer = peer]
    /\ UNCHANGED <<db, disk, phase, config, replication_factor, pending_replications, inserted, delivered>>

UnroutablePeer(peer) ==
    /\ UNCHANGED <<pipeline_vars, envelope_vars, account_vars, caller_vars>>
    /\ phase = "running"
    /\ peers' = remove_peer(peers, peer)
    /\ last' = [NoCall EXCEPT !.op = "unroutable_peer", !.peer = peer]
    /\ UNCHANGED <<db, disk, phase, config, replication_factor, pending_replications, inserted, delivered>>

\* A Request arm that answers accepted = true whatever store_inbound returned.
RequestAcceptAll(envelope, stored_ms, io_ok) ==
    /\ UNCHANGED <<pipeline_vars, envelope_vars, account_vars, caller_vars>>
    /\ phase = "running"
    /\ LET call == [NoCall EXCEPT !.op = "request", !.message_id = envelope.message_id,
                                  !.envelope = envelope, !.accepted = "true"]
       IN  IF io_ok
           THEN /\ db' = [db EXCEPT !.inbound = store_inbound(db.inbound, envelope, stored_ms)]
                /\ disk' = flush(disk, db')
                /\ last' = [call EXCEPT !.ret = "Ok"]
                /\ delivered' = [delivered EXCEPT ![envelope.message_id] =
                                     IF @.envelope = envelope
                                     THEN [@ EXCEPT !.times = Min(@ + 1, MaxDeliveries)]
                                     ELSE [envelope |-> envelope, times |-> 1]]
           ELSE /\ last' = [call EXCEPT !.ret = "Err"]
                /\ UNCHANGED <<db, disk, delivered>>
    /\ UNCHANGED <<phase, peers, config, replication_factor, pending_replications, inserted>>

\* RequestResponseMessage::Request: an envelope arrives from a peer.
Request(envelope, stored_ms, io_ok) ==
    /\ UNCHANGED <<pipeline_vars, envelope_vars, account_vars, caller_vars>>
    /\ phase = "running"
    /\ LET call == [NoCall EXCEPT !.op = "request", !.message_id = envelope.message_id,
                                  !.envelope = envelope]
       IN  IF io_ok
           THEN /\ db' = [db EXCEPT !.inbound = store_inbound(db.inbound, envelope, stored_ms)]
                /\ disk' = flush(disk, db')
                /\ last' = [call EXCEPT !.ret = "Ok", !.accepted = "true"]
                /\ delivered' = [delivered EXCEPT ![envelope.message_id] =
                                     IF @.envelope = envelope
                                     THEN [@ EXCEPT !.times = Min(@ + 1, MaxDeliveries)]
                                     ELSE [envelope |-> envelope, times |-> 1]]
           ELSE /\ last' = [call EXCEPT !.ret = "Err", !.accepted = "false"]
                /\ UNCHANGED <<db, disk, delivered>>
    /\ UNCHANGED <<phase, peers, config, replication_factor, pending_replications, inserted>>

\* RequestResponseMessage::Response for a request of the in-flight map.
Response(message_id, peer, accepted, io_ok) ==
    /\ UNCHANGED <<pipeline_vars, envelope_vars, account_vars, caller_vars>>
    /\ phase = "running"
    /\ BagIn(<<message_id, peer>>, pending_replications)
    /\ pending_replications' = pending_replications (-) Entry(message_id, peer)
    /\ LET call == [NoCall EXCEPT !.op = "response", !.message_id = message_id, !.peer = peer,
                                  !.accepted = IF accepted THEN "true" ELSE "false"]
           res == mark_peer_success(db.replication, message_id, peer)
       IN  IF ~accepted
           THEN /\ last' = [call EXCEPT
                               !.events = <<PublishFailed(message_id, "replication rejected")>>]
                /\ UNCHANGED <<db, disk>>
           ELSE IF ~io_ok
           THEN /\ last' = [call EXCEPT !.ret = "Err"]
                /\ UNCHANGED <<db, disk>>
           ELSE /\ db' = [db EXCEPT !.replication = res.tree]
                /\ disk' = flush(disk, db')
                /\ last' = [call EXCEPT !.ret = IF res.ret THEN "Ok(true)" ELSE "Ok(false)",
                                        !.events = <<PublishAck(message_id, peer)>>]
    /\ UNCHANGED <<phase, peers, config, replication_factor, inserted, delivered>>

\* An OutboundFailure arm that drops every in-flight entry of the message.
OutboundFailureAll(message_id, peer) ==
    /\ UNCHANGED <<pipeline_vars, envelope_vars, account_vars, caller_vars>>
    /\ phase = "running"
    /\ BagIn(<<message_id, peer>>, pending_replications)
    /\ pending_replications' =
           [e \in {x \in BagToSet(pending_replications) : x[1] # message_id}
               |-> pending_replications[e]]
    /\ last' = [NoCall EXCEPT !.op = "outbound_failure", !.message_id = message_id,
                              !.peer = peer,
                              !.events = <<PublishFailed(message_id, "outbound failure")>>]
    /\ UNCHANGED <<db, disk, phase, peers, config, replication_factor, inserted, delivered>>

\* RequestResponseEvent::OutboundFailure for a request of the in-flight map.
OutboundFailure(message_id, peer) ==
    /\ UNCHANGED <<pipeline_vars, envelope_vars, account_vars, caller_vars>>
    /\ phase = "running"
    /\ BagIn(<<message_id, peer>>, pending_replications)
    /\ pending_replications' = pending_replications (-) Entry(message_id, peer)
    /\ last' = [NoCall EXCEPT !.op = "outbound_failure", !.message_id = message_id,
                              !.peer = peer,
                              !.events = <<PublishFailed(message_id, "outbound failure")>>]
    /\ UNCHANGED <<db, disk, phase, peers, config, replication_factor, inserted, delivered>>

Next ==
    \/ \E ok \in BOOLEAN : Start(ok)
    \/ \E ok \in BOOLEAN : RetryTick(ok)
    \/ \E e \in Traffic, ok \in BOOLEAN : Publish(e, ok)
    \/ Shutdown
    \/ Crash
    \/ \E p \in PeerIds : \E o \in Orders(Range(peers) \cup {p}) : RoutingUpdated(p, o)
    \/ \E p \in PeerIds : UnroutablePeer(p)
    \/ \E e \in Traffic, t \in 0..MaxStoredMs, ok \in BOOLEAN : Request(e, t, ok)
    \/ \E m \in TrafficIds, p \in PeerIds, a \in BOOLEAN, ok \in BOOLEAN : Response(m, p, a, ok)
    \/ \E m \in TrafficIds, p \in PeerIds : OutboundFailure(m, p)
    \/ \E ok \in BOOLEAN : Dial(ok)
    \/ \E e \in Traffic, queued \in BOOLEAN : PublishAfterShutdown(e, queued)
    \/ DialAfterShutdown

Spec == Init /\ [][Next]_vars

\* ------------------------------------------- the select loop's other cases
\* An unknown request_id taken for the requests in flight to that peer: their
\* entries are dropped.
UnknownRequestIdByPeer(kind, peer, accepted) ==
    /\ UNCHANGED <<pipeline_vars, envelope_vars, account_vars, caller_vars>>
    /\ phase = "running"
    /\ kind = "outbound_failure" => accepted = "none"
    /\ kind = "response" => accepted # "none"
    /\ pending_replications' =
           [e \in {x \in BagToSet(pending_replications) : x[2] # peer} |-> pending_replications[e]]
    /\ last' = [NoCall EXCEPT !.op = "unknown_request", !.reply = kind, !.peer = peer,
                              !.accepted = accepted]
    /\ UNCHANGED <<db, disk, phase, peers, config, replication_factor, inserted, delivered>>

\* A Response (kind "response") or an OutboundFailure (kind "outbound_failure")
\* whose request_id pending_replications.remove does not find: logged.
UnknownRequestId(kind, peer, accepted) ==
    /\ UNCHANGED <<pipeline_vars, envelope_vars, account_vars, caller_vars>>
    /\ phase = "running"
    /\ kind = "outbound_failure" => accepted = "none"
    /\ kind = "response" => accepted # "none"
    /\ pending_replications' = pending_replications
    /\ last' = [NoCall EXCEPT !.op = "unknown_request", !.reply = kind, !.peer = peer,
                              !.accepted = accepted]
    /\ UNCHANGED <<db, disk, phase, peers, config, replication_factor, inserted, delivered>>

\* select! takes the Shutdown command while the swarm holds, not yet polled, the
\* Response of an in-flight request: done_tx is signalled, the loop breaks and
\* the swarm is dropped with the response in it.
ShutdownArrived(message_id, peer, accepted) ==
    /\ UNCHANGED <<pipeline_vars, envelope_vars, account_vars, caller_vars>>
    /\ phase = "running"
    /\ in_flight(pending_replications, message_id, peer)
    /\ phase' = "stopped"
    /\ peers' = <<>>
    /\ pending_replications' = EmptyBag
    /\ last' = [NoCall EXCEPT !.op = "shutdown", !.reply = "Ok", !.message_id = message_id,
                              !.peer = peer,
                              !.accepted = IF accepted THEN "true" ELSE "false"]
    /\ UNCHANGED <<db, disk, config, replication_factor, inserted, delivered>>

LoopNext ==
    \/ \E ok \in BOOLEAN : Start(ok)
    \/ \E ok \in BOOLEAN : RetryTick(ok)
    \/ \E e \in Traffic, ok \in BOOLEAN : Publish(e, ok)
    \/ \E p \in PeerIds : \E o \in Orders(Range(peers) \cup {p}) : RoutingUpdated(p, o)
    \/ \E e \in Traffic : Request(e, 0, TRUE)
    \/ \E m \in TrafficIds, p \in PeerIds, a \in BOOLEAN, ok \in BOOLEAN : Response(m, p, a, ok)
    \/ \E m \in TrafficIds, p \in PeerIds : OutboundFailure(m, p)
    \/ \E k \in {"response", "outbound_failure"}, p \in PeerIds, a \in {"true", "false", "none"} :
          UnknownRequestId(k, p, a)
    \/ Shutdown
    \/ \E m \in TrafficIds, p \in PeerIds, a \in BOOLEAN : ShutdownArrived(m, p, a)

LoopSpec == Init /\ [][LoopNext]_vars

\* --------------------------------------------------- DiscoveryService
\* DiscoveryService::bootstrap, one configured peer: the Dial command is sent,
\* then the peer is inserted; when the command cannot be sent bootstrap returns
\* the error and inserts nothing more.
BootstrapPeer(peer, order, dial_ok) ==
    /\ UNCHANGED <<pipeline_vars, envelope_vars, account_vars, caller_vars>>
    /\ phase = "running"
    /\ order \in Orders(Range(peers) \cup {peer})
    /\ peers' = IF dial_ok THEN insert_peer(peers, peer, order) ELSE peers
    /\ last' = [NoCall EXCEPT !.op = "bootstrap", !.peer = peer,
                              !.ret = IF dial_ok THEN "Ok" ELSE "Err"]
    /\ UNCHANGED <<db, disk, phase, config, replication_factor, pending_replications, inserted,
                   delivered>>

\* handle_kad_event for KademliaEvent::ModeChanged and every other event
OtherKadEvent ==
    /\ UNCHANGED <<pipeline_vars, envelope_vars, account_vars, caller_vars>>
    /\ phase = "running"
    /\ last' = [NoCall EXCEPT !.op = "kad_other"]
    /\ UNCHANGED <<db, disk, phase, peers, config, replication_factor, pending_replications,
                   inserted, delivered>>

DiscoveryNext ==
    \/ \E ok \in BOOLEAN : Start(ok)
    \/ \E p \in PeerIds, ok \in BOOLEAN :
          \E o \in Orders(Range(peers) \cup {p}) : BootstrapPeer(p, o, ok)
    \/ \E p \in PeerIds : \E o \in Orders(Range(peers) \cup {p}) : RoutingUpdated(p, o)
    \/ \E p \in PeerIds : UnroutablePeer(p)
    \/ OtherKadEvent
    \/ \E e \in Traffic, ok \in BOOLEAN : Publish(e, ok)
    \/ Shutdown

DiscoverySpec == Init /\ [][DiscoveryNext]_vars

\* A runtime that stays up, with a peer set that discovery has filled and that
\* does not change: no Shutdown, no crash, no Kademlia event.
LiveInit ==
    /\ db = EmptyDb
    /\ disk = EmptyDb
    /\ phase = "stopped"
    /\ \E S \in SUBSET PeerIds : S # {} /\ peers \in Orders(S)
    /\ config \in 0..MaxReplication
    /\ replication_factor = initialize(config)
    /\ pending_replications = EmptyBag
    /\ last = NoCall
    /\ inserted = [m \in MessageIds |-> NoInsert]
    /\ delivered = [m \in MessageIds |-> NoDelivery]
    /\ PipelineNew
    /\ EnvelopeNew /\ AccountNew /\ CallersNew

LiveNext ==
    \/ \E ok \in BOOLEAN : Start(ok)
    \/ \E ok \in BOOLEAN : RetryTick(ok)
    \/ \E e \in Traffic, ok \in BOOLEAN : Publish(e, ok)
    \/ \E m \in TrafficIds, p \in PeerIds, a \in BOOLEAN, ok \in BOOLEAN : Response(m, p, a, ok)
    \/ \E m \in TrafficIds, p \in PeerIds : OutboundFailure(m, p)

\* The retry timer keeps ticking (and the store can be read), and a peer that is
\* sent a request again and again eventually answers accepted = true while the
\* store can be written: no permanent network or storage failure.
LiveFairness ==
    /\ WF_vars(RetryTick(TRUE))
    /\ \A m \in TrafficIds, p \in PeerIds : SF_vars(Response(m, p, TRUE, TRUE))

LiveSpec == LiveInit /\ [][LiveNext]_vars /\ LiveFairness

\* ------------------------------------------------------ MessagePipeline
Keys == 1..MaxKey
Bodies == 1..MaxBody
SendBodies == 1..MaxSendBody
ForeignIds == (MaxSend + 1)..(MaxSend + MaxForeign)

overlay_vars == <<db, disk, phase, peers, config, replication_factor, pending_replications,
                  last, inserted, delivered>>

\* PgpKeyPair::cert and PgpKeyPair::fingerprint of a keypair
cert(keypair) == keypair
fingerprint(keypair) == <<"fingerprint", keypair>>

\* PgpKeyPair::encrypt_and_sign: an OpenPGP message encrypted to the recipient's
\* certificate and signed by the sender's key. intact is FALSE once the bytes
\* were changed on the way.
encrypt_and_sign(keypair, recipient_cert, body) ==
    [to |-> recipient_cert, signed_by |-> keypair, body |-> body, intact |-> TRUE]

Ciphertexts == [to : Keys, signed_by : Keys, body : Bodies, intact : BOOLEAN]

\* decrypt_and_verify that does not check who signed.
decrypt_unverified(keypair, sender_cert, ciphertext) ==
    IF ciphertext.to = cert(keypair) /\ ciphertext.intact
    THEN [ok |-> TRUE, body |-> ciphertext.body]
    ELSE [ok |-> FALSE, body |-> 0]

\* PgpKeyPair::decrypt_and_verify: Ok(body) when the message was encrypted to
\* this keypair, carries a good signature of sender_cert's key and is whole.
decrypt_and_verify(keypair, sender_cert, ciphertext) ==
    IF ciphertext.to = cert(keypair) /\ ciphertext.signed_by = sender_cert /\ ciphertext.intact
    THEN [ok |-> TRUE, body |-> ciphertext.body]
    ELSE [ok |-> FALSE, body |-> 0]

\* base64 STANDARD encode / decode; a text that is not base64 does not decode.
base64_encode(bytes) == <<"base64", bytes>>
base64_decode_ok(text) == Len(text) = 2 /\ text[1] = "base64"
base64_decode(text) == text[2]

\* PlaintextMessage::new with the id Uuid::new_v4 returned and the clock's
\* reading
PlaintextMessage(message_id, conversation_id, sender_device, created_ms, body) ==
    [message_id |-> message_id, conversation_id |-> conversation_id,
     sender_device |-> sender_device, created_ms |-> created_ms, body |-> body]

NoMessage == PlaintextMessage(0, 0, 0, 0, 0)

\* from_plaintext that leaves created_ms out of the header.
from_plaintext_unstamped(message, sender_keypair, recipient_cert) ==
    [message_id |-> message.message_id,
     conversation_id |-> message.conversation_id,
     sender_fingerprint |-> fingerprint(sender_keypair),
     sender_device |-> message.sender_device,
     created_ms |-> 0,
     encrypted_payload |->
         base64_encode(encrypt_and_sign(sender_keypair, recipient_cert, message.body))]

\* PgpEnvelope::from_plaintext, after encrypt_and_sign succeeded
from_plaintext(message, sender_keypair, recipient_cert) ==
    [message_id |-> message.message_id,
     conversation_id |-> message.conversation_id,
     sender_fingerprint |-> fingerprint(sender_keypair),
     sender_device |-> message.sender_device,
     created_ms |-> message.created_ms,
     encrypted_payload |->
         base64_encode(encrypt_and_sign(sender_keypair, recipient_cert, message.body))]

\* into_plaintext that trusts the header's sender_fingerprint instead of the
\* signature.
into_plaintext_by_fingerprint(envelope, recipient_keypair, sender_cert) ==
    IF ~base64_decode_ok(envelope.encrypted_payload)
    THEN [ok |-> FALSE, message |-> NoMessage]
    ELSE LET res == decrypt_unverified(recipient_keypair, sender_cert,
                                       base64_decode(envelope.encrypted_payload))
         IN  IF res.ok /\ envelope.sender_fingerprint = fingerprint(sender_cert)
             THEN [ok |-> TRUE,
                   message |-> [message_id |-> envelope.message_id,
                                conversation_id |-> envelope.conversation_id,
                                sender_device |-> envelope.sender_device,
                                created_ms |-> envelope.created_ms,
                                body |-> res.body]]
             ELSE [ok |-> FALSE, message |-> NoMessage]

\* PgpEnvelope::into_plaintext: [ok, message]
into_plaintext(envelope, recipient_keypair, sender_cert) ==
    IF ~base64_decode_ok(envelope.encrypted_payload)
    THEN [ok |-> FALSE, message |-> NoMessage]
    ELSE LET res == decrypt_and_verify(recipient_keypair, sender_cert,
                                       base64_decode(envelope.encrypted_payload))
         IN  IF res.ok
             THEN [ok |-> TRUE,
                   message |-> [message_id |-> envelope.message_id,
                                conversation_id |-> envelope.conversation_id,
                                sender_device |-> envelope.sender_device,
                                created_ms |-> envelope.created_ms,
                                body |-> res.body]]
             ELSE [ok |-> FALSE, message |-> NoMessage]

\* TransportEnvelope::new
TransportEnvelope(pgp_envelope) ==
    [message_id |-> pgp_envelope.message_id, pgp_envelope |-> pgp_envelope]

\* MessageReceipt::new
MessageReceipt(message_id, status) == [message_id |-> message_id, status |-> status]

\* MessageQueue::enqueue that puts the message at the front.
enqueue_front(q, envelope) == <<[envelope |-> envelope, attempts |-> 0]>> \o q

\* MessageQueue::enqueue
enqueue(q, envelope) == Append(q, [envelope |-> envelope, attempts |-> 0])

\* add_receipt that starts the log over with the new receipt.
add_receipt_replace(logs, receipt) == Put(logs, receipt.message_id, <<receipt>>)

\* MessagePipeline::add_receipt
add_receipt(logs, receipt) ==
    Put(logs, receipt.message_id,
        Append(IF receipt.message_id \in DOMAIN logs THEN logs[receipt.message_id] ELSE <<>>,
               receipt))

\* MessagePipeline::get_receipts
get_receipts(logs, message_id) ==
    IF message_id \in DOMAIN logs THEN logs[message_id] ELSE <<>>

\* MessagePipeline::set_keypair
SetKeypair(keypair) ==
    /\ local_keypair' = keypair
    /\ out' = [NoOut EXCEPT !.op = "set_keypair", !.ret = "Ok"]
    /\ UNCHANGED <<queue, receipts, uuids>>
    /\ UNCHANGED <<overlay_vars, envelope_vars, account_vars, caller_vars>>

\* MessagePipeline.local_device, and the conversation and clock reading of the
\* requests handed to this pipeline (send_message branches on neither).
local_device == 1
request_conversation == 1
request_clock == 0

\* local_keypair.read().await.clone().ok_or_else(..) that takes None for a key.
keypair_unchecked(keypair) == TRUE

\* local_keypair.read().await.clone().ok_or_else(..): whether a keypair is there
keypair_or_err(keypair) == keypair # 0

\* MessagePipeline::send_message; crypto_ok: whether encrypt_and_sign succeeds
\* for the recipient's certificate.
SendMessage(recipient_cert, body, crypto_ok) ==
    /\ ~keypair_or_err(local_keypair) \/ uuids < MaxSend
    /\ LET message_id == uuids + 1
           plaintext == PlaintextMessage(message_id, request_conversation, local_device,
                                         request_clock, body)
           transport == TransportEnvelope(from_plaintext(plaintext, local_keypair, recipient_cert))
           call == [NoOut EXCEPT !.op = "send_message"]
       IN  IF ~keypair_or_err(local_keypair)
           THEN /\ out' = [call EXCEPT !.ret = "Crypto(keypair not initialized)"]
                /\ UNCHANGED <<queue, receipts, uuids>>
           ELSE IF ~crypto_ok
           THEN /\ uuids' = message_id
                /\ out' = [call EXCEPT !.ret = "Crypto(encryption failed)"]
                /\ UNCHANGED <<queue, receipts>>
           ELSE /\ uuids' = message_id
                /\ queue' = enqueue(queue, transport)
                /\ receipts' = add_receipt(receipts, MessageReceipt(message_id, "Queued"))
                /\ out' = [call EXCEPT !.ret = "Ok", !.message_id = message_id,
                                       !.emitted = <<MessageReceipt(message_id, "Queued")>>]
    /\ UNCHANGED local_keypair
    /\ UNCHANGED <<overlay_vars, envelope_vars, account_vars, caller_vars>>

\* The envelopes a pipeline may be handed: any header over any payload text.
ReceivedIds == (1..uuids) \cup ForeignIds
Payloads == {base64_encode(c) : c \in Ciphertexts} \cup {<<"not base64">>}
ReceivedEnvelopes ==
    {TransportEnvelope([message_id |-> m,
                        conversation_id |-> request_conversation,
                        sender_device |-> local_device,
                        created_ms |-> request_clock,
                        sender_fingerprint |->
                            IF base64_decode_ok(text)
                            THEN fingerprint(base64_decode(text).signed_by)
                            ELSE fingerprint(1),
                        encrypted_payload |-> text]) :
        m \in ReceivedIds, text \in Payloads}

\* MessagePipeline::receive_envelope
ReceiveEnvelope(envelope, sender_cert) ==
    /\ LET res == into_plaintext(envelope.pgp_envelope, local_keypair, sender_cert)
           call == [NoOut EXCEPT !.op = "receive_envelope",
                                 !.payload = envelope.pgp_envelope.encrypted_payload,
                                 !.sender_cert = sender_cert]
       IN  IF ~keypair_or_err(local_keypair)
           THEN /\ out' = [call EXCEPT !.ret = "Crypto(keypair not initialized)"]
                /\ UNCHANGED receipts
           ELSE IF ~res.ok
           THEN /\ out' = [call EXCEPT !.ret = "Crypto(decryption failed)"]
                /\ UNCHANGED receipts
           ELSE /\ Len(get_receipts(receipts, res.message.message_id)) < MaxReceipts
                /\ receipts' = add_receipt(receipts,
                                    MessageReceipt(res.message.message_id, "Delivered"))
                /\ out' = [call EXCEPT !.ret = "Ok", !.message_id = res.message.message_id,
                                       !.body = res.message.body,
                                       !.emitted = <<MessageReceipt(res.message.message_id,
                                                                    "Delivered")>>]
    /\ UNCHANGED <<local_keypair, queue, uuids>>
    /\ UNCHANGED <<overlay_vars, envelope_vars, account_vars, caller_vars>>

\* MessagePipeline::mark_sent / mark_failed
Mark(op, message_id, status) ==
    /\ Len(get_receipts(receipts, message_id)) < MaxReceipts
    /\ receipts' = add_receipt(receipts, MessageReceipt(message_id, status))
    /\ out' = [NoOut EXCEPT !.op = op, !.ret = "Ok", !.message_id = message_id,
                            !.emitted = <<MessageReceipt(message_id, status)>>]
    /\ UNCHANGED <<local_keypair, queue, uuids>>
    /\ UNCHANGED <<overlay_vars, envelope_vars, account_vars, caller_vars>>

MarkSent(message_id) == Mark("mark_sent", message_id, "Sent")
MarkFailed(message_id) == Mark("mark_failed", message_id, "Failed")

\* MessagePipeline::get_receipts
GetReceipts(message_id) ==
    /\ out' = [NoOut EXCEPT !.op = "get_receipts", !.ret = "Ok", !.message_id = message_id,
                            !.returned = get_receipts(receipts, message_id)]
    /\ UNCHANGED <<local_keypair, queue, receipts, uuids>>
    /\ UNCHANGED <<overlay_vars, envelope_vars, account_vars, caller_vars>>

PipelineNext ==
    \/ \E k \in Keys : SetKeypair(k)
    \/ \E c \in Keys, b \in SendBodies, ok \in BOOLEAN : SendMessage(c, b, ok)
    \/ \E e \in ReceivedEnvelopes, c \in Keys : ReceiveEnvelope(e, c)

\* The node a pipeline runs in: its overlay not started yet, or running with a
\* peer and an envelope taken into the inbound store.
PipelineInit ==
    /\ PipelineNew
    /\ EnvelopeNew /\ AccountNew /\ CallersNew
    /\ config = MaxReplication
    /\ replication_factor = initialize(config)
    /\ pending_replications = EmptyBag
    /\ inserted = [m \in MessageIds |-> NoInsert]
    /\ \/ /\ phase = "stopped"
          /\ db = EmptyDb
          /\ peers = <<>>
          /\ last = NoCall
          /\ delivered = [m \in MessageIds |-> NoDelivery]
       \/ \E e \in {t \in Traffic : t.message_id = 1 /\ t.payload = 1} :
             /\ phase = "running"
             /\ db = [EmptyDb EXCEPT !.inbound = store_inbound(EmptyTree, e, 0)]
             /\ peers = <<1>>
             /\ last = [NoCall EXCEPT !.op = "request", !.message_id = e.message_id,
                                      !.envelope = e, !.ret = "Ok", !.accepted = "true"]
             /\ delivered = [[m \in MessageIds |-> NoDelivery] EXCEPT
                                 ![e.message_id] = [envelope |-> e, times |-> 1]]
    /\ disk = db

PipelineSpec == PipelineInit /\ [][PipelineNext]_vars

\* ------------------------------------------------------ PgpEnvelope
\* The overlay not started and holding nothing.
OverlayIdle ==
    /\ db = EmptyDb /\ disk = EmptyDb /\ phase = "stopped" /\ peers = <<>>
    /\ config = MaxReplication
    /\ replication_factor = initialize(config)
    /\ pending_replications = EmptyBag
    /\ last = NoCall
    /\ inserted = [m \in MessageIds |-> NoInsert]
    /\ delivered = [m \in MessageIds |-> NoDelivery]

Messages ==
    [message_id : 1..MaxSend, conversation_id : 1..MaxConversation,
     sender_device : 1..MaxDevice, created_ms : 0..MaxStoredMs, body : Bodies]

\* The header fields of a PgpEnvelope (all pub) and the values each may be given.
HeaderFields ==
    {"message_id", "conversation_id", "sender_fingerprint", "sender_device", "created_ms"}
HeaderValues(field) ==
    CASE field = "message_id" -> 1..MaxSend
      [] field = "conversation_id" -> 1..MaxConversation
      [] field = "sender_fingerprint" -> {fingerprint(k) : k \in Keys}
      [] field = "sender_device" -> 1..MaxDevice
      [] field = "created_ms" -> 0..MaxStoredMs

\* PgpEnvelope::from_plaintext(message, sender_keypair, recipient.cert());
\* crypto_ok: whether encrypt_and_sign succeeds.
Wrap(message, sender_keypair, recipient_keypair, crypto_ok) ==
    /\ wire.op \in {"none", "wrap_failed"}
    /\ wire' = IF crypto_ok
               THEN [NoWire EXCEPT !.op = "wrap", !.message = message,
                                   !.sender = sender_keypair, !.recipient = recipient_keypair,
                                   !.envelope = from_plaintext(message, sender_keypair,
                                                               cert(recipient_keypair))]
               ELSE [NoWire EXCEPT !.op = "wrap_failed"]
    /\ UNCHANGED <<overlay_vars, pipeline_vars, account_vars, caller_vars>>

\* Whoever carries the envelope assigns one of its header fields.
AlterHeader(field, value) ==
    /\ wire.op \in {"wrap", "alter", "tamper", "unwrap"}
    /\ wire' = [wire EXCEPT !.op = "alter", !.envelope[field] = value,
                            !.keypair = 0, !.sender_cert = 0, !.result = NoWire.result]
    /\ UNCHANGED <<overlay_vars, pipeline_vars, account_vars, caller_vars>>

\* Whoever carries the envelope changes bytes of the encoded payload.
TamperPayload ==
    /\ wire.op \in {"wrap", "alter", "tamper", "unwrap"}
    /\ wire' = [wire EXCEPT !.op = "tamper",
                            !.envelope.encrypted_payload =
                                base64_encode([base64_decode(@) EXCEPT !.intact = FALSE]),
                            !.keypair = 0, !.sender_cert = 0, !.result = NoWire.result]
    /\ UNCHANGED <<overlay_vars, pipeline_vars, account_vars, caller_vars>>

\* PgpEnvelope::into_plaintext(recipient_keypair, sender_cert)
Unwrap(recipient_keypair, sender_cert) ==
    /\ wire.op \in {"wrap", "alter", "tamper", "unwrap"}
    /\ wire' = [wire EXCEPT !.op = "unwrap", !.keypair = recipient_keypair,
                            !.sender_cert = sender_cert,
                            !.result = into_plaintext(wire.envelope, recipient_keypair,
                                                      sender_cert)]
    /\ UNCHANGED <<overlay_vars, pipeline_vars, account_vars, caller_vars>>

EnvelopeNext ==
    \/ \E m \in Messages, a \in Keys, b \in Keys, ok \in BOOLEAN : Wrap(m, a, b, ok)
    \/ \E f \in HeaderFields : \E v \in HeaderValues(f) : AlterHeader(f, v)
    \/ TamperPayload
    \/ \E k \in Keys, c \in Keys : Unwrap(k, c)

EnvelopeInit == OverlayIdle /\ PipelineNew /\ EnvelopeNew /\ AccountNew /\ CallersNew

EnvelopeSpec == EnvelopeInit /\ [][EnvelopeNext]_vars

\* ------------------------------------- NodeStorage under concurrent callers
\* A caller's call: pc is "idle", "got" (tree.get returned, the write not yet
\* issued) or "done"; existing is what tree.get returned.
IdleCall ==
    [pc |-> "idle", op |-> "none", message_id |-> 0, envelope |-> NoEnvelope,
     target_peers |-> <<>>, peer |-> 0, existing |-> <<>>]
Tasks == 1..MaxTask
RaceEnvelopes == {e \in Traffic : e.payload = 1}

\* tree.get(key): <<>> for None, <<value>> for Some(value)
get(tree, key) == IF key \in DOMAIN tree THEN <<tree[key]>> ELSE <<>>

\* The tree a call's write step leaves, from what its tree.get returned: the
\* code of insert_outbound / mark_peer_success applied to the value read.
write_back(tree, call) ==
    LET seen == IF call.existing = <<>> THEN EmptyTree
                ELSE Put(EmptyTree, call.message_id, call.existing[1])
        after == IF call.op = "insert_outbound"
                 THEN insert_outbound(seen, call.message_id, call.envelope, call.target_peers)
                 ELSE mark_peer_success(seen, call.message_id, call.peer).tree
    IN  IF call.message_id \in DOMAIN after
        THEN Put(tree, call.message_id, after[call.message_id])
        ELSE Remove(tree, call.message_id)

\* write_back that reads the record again when it writes (get and write as one
\* step).
write_back_atomic(tree, call) ==
    write_back(tree, [call EXCEPT !.existing = get(tree, call.message_id)])

Begin(t, call) ==
    /\ phase = "running"
    /\ tasks.calls[t].pc = "idle"
    /\ tasks' = [base |-> IF \A u \in Tasks : tasks.calls[u].pc = "idle"
                          THEN db.replication ELSE tasks.base,
                 calls |-> [tasks.calls EXCEPT ![t] = call]]
    /\ UNCHANGED <<overlay_vars, pipeline_vars, envelope_vars, account_vars, sends>>

\* insert_outbound up to and including tree.get
CallInsertOutbound(t, envelope, target_peers) ==
    Begin(t, [IdleCall EXCEPT !.pc = "got", !.op = "insert_outbound",
                              !.message_id = envelope.message_id, !.envelope = envelope,
                              !.target_peers = target_peers,
                              !.existing = get(db.replication, envelope.message_id)])

\* mark_peer_success up to and including tree.get; with no record it returns
\* Ok(true) at once.
CallMarkPeerSuccess(t, message_id, peer) ==
    Begin(t, [IdleCall EXCEPT !.pc = IF get(db.replication, message_id) = <<>>
                                     THEN "done" ELSE "got",
                              !.op = "mark_peer_success",
                              !.message_id = message_id, !.peer = peer,
                              !.existing = get(db.replication, message_id)])

\* The rest of the call: tree.insert or tree.remove, then tree.flush.
WriteBack(t) ==
    /\ tasks.calls[t].pc = "got"
    /\ db' = [db EXCEPT !.replication = write_back(db.replication, tasks.calls[t])]
    /\ disk' = flush(disk, db')
    /\ tasks' = [tasks EXCEPT !.calls[t].pc = "done", !.calls[t].existing = <<>>]
    /\ UNCHANGED <<phase, peers, config, replication_factor, pending_replications, last,
                   inserted, delivered>>
    /\ UNCHANGED <<pipeline_vars, envelope_vars, account_vars, sends>>

\* Every call has returned; the callers go on to their next calls.
Returned ==
    /\ \A t \in Tasks : tasks.calls[t].pc # "got"
    /\ \E t \in Tasks : tasks.calls[t].pc = "done"
    /\ tasks' = [base |-> db.replication, calls |-> [t \in Tasks |-> IdleCall]]
    /\ UNCHANGED <<overlay_vars, pipeline_vars, envelope_vars, account_vars, sends>>

RaceNext ==
    \/ \E t \in Tasks, e \in RaceEnvelopes, ps \in SeqsUpTo(PeerIds, MaxPeerList) :
          CallInsertOutbound(t, e, ps)
    \/ \E t \in Tasks, m \in TrafficIds, p \in PeerIds : CallMarkPeerSuccess(t, m, p)
    \/ \E t \in Tasks : WriteBack(t)
    \/ Returned

\* NodeStorage::open done, its handle cloned to the callers.
RaceInit ==
    /\ db = EmptyDb /\ disk = EmptyDb /\ phase = "running" /\ peers = <<>>
    /\ config = MaxReplication
    /\ replication_factor = initialize(config)
    /\ pending_replications = EmptyBag
    /\ last = [NoCall EXCEPT !.op = "open"]
    /\ inserted = [m \in MessageIds |-> NoInsert]
    /\ delivered = [m \in MessageIds |-> NoDelivery]
    /\ PipelineNew /\ EnvelopeNew /\ AccountNew
    /\ tasks = [base |-> EmptyTree, calls |-> [t \in Tasks |-> IdleCall]]
    /\ sends = <<>>

RaceSpec == RaceInit /\ [][RaceNext]_vars

\* ---------------------------------------------------- account store
Passwords ==
    {pw \in SeqsUpTo(1..MaxChar, MaxPasswordLen) : Len(pw) >= MinPasswordLen - 1}
SecretKeys == {<<"tsk", k>> : k \in Keys}
Usernames == 1..MaxUser
Salts == 1..MaxSalt

\* str::as_bytes / String::from_utf8
as_bytes(text) == <<"utf8", text>>
from_utf8_ok(bytes) == Len(bytes) = 2 /\ bytes[1] = "utf8"
from_utf8(bytes) == bytes[2]

\* hash_password: the PHC string of Argon2 over the password and a fresh salt
hash_password(password, salt) == <<"$argon2id$", salt, <<"argon2", password, salt>>>>

\* verify_password that accepts every password.
verify_password_any(password, hash) == TRUE

\* verify_password: parses the PHC string and hashes the password again with
\* the salt it names.
verify_password(password, hash) ==
    /\ Len(hash) = 3 /\ hash[1] = "$argon2id$"
    /\ hash[3] = <<"argon2", password, hash[2]>>

\* derive_encryption_key (Argon2 hash_password_into)
derive_encryption_key(password, salt) == <<"aes256", password, salt>>

\* Aes256Gcm encrypt / decrypt: the tag verifies under the same key and nonce
\* only.
aes_gcm_encrypt(key, nonce, plaintext) == [key |-> key, nonce |-> nonce, plaintext |-> plaintext]
aes_gcm_decrypt_ok(key, nonce, ciphertext) == ciphertext.key = key /\ ciphertext.nonce = nonce
aes_gcm_decrypt(key, nonce, ciphertext) == ciphertext.plaintext

\* encrypt_secret_key, with the salt and nonce OsRng produced
encrypt_secret_key(secret_key, password, salt, nonce) ==
    LET key == derive_encryption_key(password, salt)
    IN  [ciphertext |-> base64_encode(aes_gcm_encrypt(key, nonce, as_bytes(secret_key))),
         nonce |-> base64_encode(nonce),
         salt |-> base64_encode(salt)]

\* decrypt_secret_key: [ok, err, secret_key]
decrypt_secret_key(encrypted, nonce_b64, salt_b64, password) ==
    LET failed(err) == [ok |-> FALSE, err |-> err, secret_key |-> <<>>]
    IN  IF ~base64_decode_ok(encrypted) THEN failed("Invalid encrypted data")
        ELSE IF ~base64_decode_ok(nonce_b64) THEN failed("Invalid nonce")
        ELSE IF ~base64_decode_ok(salt_b64) THEN failed("Invalid salt")
        ELSE LET key == derive_encryption_key(password, base64_decode(salt_b64))
                 nonce == base64_decode(nonce_b64)
                 ciphertext == base64_decode(encrypted)
             IN  IF ~aes_gcm_decrypt_ok(key, nonce, ciphertext)
                 THEN failed("Wrong password or corrupted data")
                 ELSE IF ~from_utf8_ok(aes_gcm_decrypt(key, nonce, ciphertext))
                 THEN failed("Invalid UTF-8 in decrypted key")
                 ELSE [ok |-> TRUE, err |-> "",
                       secret_key |-> from_utf8(aes_gcm_decrypt(key, nonce, ciphertext))]

\* serde_json::to_string_pretty / from_str of an Account
to_string_pretty(account) == <<"json", account>>
from_str_json(json) == json[2]

\* create_account; pw_salt, kd_salt and nonce are what OsRng produced, io_ok
\* whether account.json could be written (a failed write is taken to leave the
\* file as it was).
CreateAccount(username, password, secret_key, pw_salt, kd_salt, nonce, io_ok) ==
    /\ LET call == [login_out EXCEPT !.op = "create_account", !.password = password,
                                     !.secret_key = <<>>]
           sealed == encrypt_secret_key(secret_key, password, kd_salt, nonce)
           account == [username |-> username,
                       password_hash |-> hash_password(password, pw_salt),
                       encrypted_secret_key |-> sealed.ciphertext,
                       public_key |-> <<"public", secret_key[2]>>,
                       fingerprint |-> fingerprint(secret_key[2]),
                       encryption_nonce |-> sealed.nonce,
                       key_derivation_salt |-> sealed.salt]
       IN  IF Len(password) < MinPasswordLen
           THEN /\ login_out' = [call EXCEPT !.ret = "Password must be at least 4 characters"]
                /\ UNCHANGED account_file
           ELSE IF ~io_ok
           THEN /\ login_out' = [call EXCEPT !.ret = "Failed to save account"]
                /\ UNCHANGED account_file
           ELSE /\ account_file' = <<to_string_pretty(account)>>
                /\ login_out' = [call EXCEPT !.ret = "Ok", !.created_password = password,
                                             !.created_key = secret_key]
    /\ UNCHANGED <<overlay_vars, pipeline_vars, envelope_vars, caller_vars>>

\* login
Login(password) ==
    /\ LET call == [login_out EXCEPT !.op = "login", !.password = password,
                                     !.secret_key = <<>>]
       IN  IF account_file = <<>>
           THEN login_out' = [call EXCEPT !.ret = "No account found"]
           ELSE LET account == from_str_json(account_file[1])
                    opened == decrypt_secret_key(account.encrypted_secret_key,
                                                 account.encryption_nonce,
                                                 account.key_derivation_salt, password)
                IN  IF ~verify_password(password, account.password_hash)
                    THEN login_out' = [call EXCEPT !.ret = "Wrong password"]
                    ELSE IF ~opened.ok
                    THEN login_out' = [call EXCEPT !.ret = opened.err]
                    ELSE login_out' = [call EXCEPT !.ret = "Ok",
                                                   !.secret_key = opened.secret_key]
    /\ UNCHANGED account_file
    /\ UNCHANGED <<overlay_vars, pipeline_vars, envelope_vars, caller_vars>>

AccountNext ==
    \/ \E u \in Usernames, pw \in Passwords, k \in SecretKeys, s1 \in Salts, s2 \in Salts,
          n \in Salts, ok \in BOOLEAN : CreateAccount(u, pw, k, s1, s2, n, ok)
    \/ \E pw \in Passwords : Login(pw)

AccountInit == OverlayIdle /\ PipelineNew /\ EnvelopeNew /\ AccountNew /\ CallersNew

AccountSpec == AccountInit /\ [][AccountNext]_vars

\* ------------------------------------------------- sends and key rotation
\* Callers of one pipeline: a send_message is taken in two steps, the read of
\* local_keypair (the lock is released when the clone is made) and the rest.
IdleSend == [pc |-> "idle", keypair |-> 0, recipient_cert |-> 0, body |-> 0]

\* send_message up to and including local_keypair.read().await.clone(): with no
\* keypair the call returns the error at once.
BeginSend(t, recipient_cert, body) ==
    /\ sends[t].pc = "idle"
    /\ uuids + Cardinality({u \in Tasks : sends[u].pc = "read"}) < MaxSend
    /\ IF ~keypair_or_err(local_keypair)
       THEN /\ out' = [NoOut EXCEPT !.op = "send_message",
                                    !.ret = "Crypto(keypair not initialized)"]
            /\ UNCHANGED sends
       ELSE /\ sends' = [sends EXCEPT ![t] = [pc |-> "read", keypair |-> local_keypair,
                                              recipient_cert |-> recipient_cert, body |-> body]]
            /\ out' = [NoOut EXCEPT !.op = "send_begun"]
    /\ UNCHANGED <<local_keypair, queue, receipts, uuids, tasks>>
    /\ UNCHANGED <<overlay_vars, envelope_vars, account_vars>>

\* The rest of send_message with an envelope whose sender_fingerprint is taken
\* from the pipeline's keypair as it is now.
FinishSendMixed(t, crypto_ok) ==
    /\ sends[t].pc = "read"
    /\ LET message_id == uuids + 1
           plaintext == PlaintextMessage(message_id, request_conversation, local_device,
                                         request_clock, sends[t].body)
           pgp_envelope == [from_plaintext(plaintext, sends[t].keypair, sends[t].recipient_cert)
                              EXCEPT !.sender_fingerprint = fingerprint(local_keypair)]
           transport == TransportEnvelope(pgp_envelope)
           call == [NoOut EXCEPT !.op = "send_message"]
       IN  IF ~crypto_ok
           THEN /\ uuids' = message_id
                /\ out' = [call EXCEPT !.ret = "Crypto(encryption failed)"]
                /\ UNCHANGED <<queue, receipts>>
           ELSE /\ uuids' = message_id
                /\ queue' = enqueue(queue, transport)
                /\ receipts' = add_receipt(receipts, MessageReceipt(message_id, "Queued"))
                /\ out' = [call EXCEPT !.ret = "Ok", !.message_id = message_id,
                                       !.emitted = <<MessageReceipt(message_id, "Queued")>>]
    /\ sends' = [sends EXCEPT ![t] = IdleSend]
    /\ UNCHANGED <<local_keypair, tasks>>
    /\ UNCHANGED <<overlay_vars, envelope_vars, account_vars>>

\* The rest of send_message, with the keypair it cloned.
FinishSend(t, crypto_ok) ==
    /\ sends[t].pc = "read"
    /\ LET message_id == uuids + 1
           plaintext == PlaintextMessage(message_id, request_conversation, local_device,
                                         request_clock, sends[t].body)
           transport == TransportEnvelope(from_plaintext(plaintext, sends[t].keypair,
                                                         sends[t].recipient_cert))
           call == [NoOut EXCEPT !.op = "send_message"]
       IN  IF ~crypto_ok
           THEN /\ uuids' = message_id
                /\ out' = [call EXCEPT !.ret = "Crypto(encryption failed)"]
                /\ UNCHANGED <<queue, receipts>>
           ELSE /\ uuids' = message_id
                /\ queue' = enqueue(queue, transport)
                /\ receipts' = add_receipt(receipts, MessageReceipt(message_id, "Queued"))
                /\ out' = [call EXCEPT !.ret = "Ok", !.message_id = message_id,
                                       !.emitted = <<MessageReceipt(message_id, "Queued")>>]
    /\ sends' = [sends EXCEPT ![t] = IdleSend]
    /\ UNCHANGED <<local_keypair, tasks>>
    /\ UNCHANGED <<overlay_vars, envelope_vars, account_vars>>

RotationNext ==
    \/ \E k \in Keys : SetKeypair(k)
    \/ \E t \in Tasks, c \in Keys, b \in SendBodies : BeginSend(t, c, b)
    \/ \E t \in Tasks, ok \in BOOLEAN : FinishSend(t, ok)

RotationInit ==
    /\ OverlayIdle /\ PipelineNew /\ EnvelopeNew /\ AccountNew
    /\ tasks = NoTasks
    /\ sends = [t \in Tasks |-> IdleSend]

RotationSpec == RotationInit /\ [][RotationNext]_vars

\* ------------------------------------------------------ MessageQueue
\* The positions of the entries with a message id, and the first of them
\* (iter().position / iter_mut().find).
Positions(q, message_id) == {i \in 1..Len(q) : q[i].envelope.message_id = message_id}
FirstPosition(q, message_id) ==
    CHOOSE i \in Positions(q, message_id) : \A j \in Positions(q, message_id) : i <= j
Without(q, i) == SubSeq(q, 1, i - 1) \o SubSeq(q, i + 1, Len(q))

\* MessageQueue::peek: <<>> for None, <<entry>> for Some(entry)
peek(q) == IF q = <<>> THEN <<>> ELSE <<Head(q)>>

\* remove that takes the last entry with the id.
queue_remove_last(q, message_id) ==
    IF Positions(q, message_id) = {} THEN [queue |-> q, ret |-> <<>>]
    ELSE LET last_match == CHOOSE i \in Positions(q, message_id) :
                               \A j \in Positions(q, message_id) : i >= j
         IN  [queue |-> Without(q, last_match), ret |-> <<q[last_match]>>]

\* MessageQueue::remove: the queue afterwards and the Option returned
queue_remove(q, message_id) ==
    IF Positions(q, message_id) = {} THEN [queue |-> q, ret |-> <<>>]
    ELSE [queue |-> Without(q, FirstPosition(q, message_id)),
          ret |-> <<q[FirstPosition(q, message_id)]>>]

\* MessageQueue::mark_attempted
mark_attempted(q, message_id) ==
    IF Positions(q, message_id) = {} THEN q
    ELSE [q EXCEPT ![FirstPosition(q, message_id)].attempts = @ + 1]

\* The envelopes handed to the queue: one id may come with different contents.
QueueEnvelopes ==
    {TransportEnvelope(from_plaintext(PlaintextMessage(m, request_conversation, local_device,
                                                       request_clock, b),
                                      1, cert(1))) :
        m \in 1..MaxSend, b \in Bodies}

Enqueue(envelope) ==
    /\ Len(queue) < MaxQueue
    /\ queue' = enqueue(queue, envelope)
    /\ out' = [NoOut EXCEPT !.op = "enqueue", !.ret = "Ok", !.message_id = envelope.message_id,
                            !.returned = <<envelope>>]
    /\ UNCHANGED <<local_keypair, receipts, uuids>>
    /\ UNCHANGED <<overlay_vars, envelope_vars, account_vars, caller_vars>>

Peek ==
    /\ out' = [NoOut EXCEPT !.op = "peek", !.ret = "Ok", !.returned = peek(queue)]
    /\ UNCHANGED <<local_keypair, queue, receipts, uuids>>
    /\ UNCHANGED <<overlay_vars, envelope_vars, account_vars, caller_vars>>

QueueRemove(message_id) ==
    /\ queue' = queue_remove(queue, message_id).queue
    /\ out' = [NoOut EXCEPT !.op = "remove", !.ret = "Ok", !.message_id = message_id,
                            !.returned = queue_remove(queue, message_id).ret]
    /\ UNCHANGED <<local_keypair, receipts, uuids>>
    /\ UNCHANGED <<overlay_vars, envelope_vars, account_vars, caller_vars>>

MarkAttempted(message_id) ==
    /\ \A i \in 1..Len(queue) : queue[i].attempts < MaxAttempts
    /\ queue' = mark_attempted(queue, message_id)
    /\ out' = [NoOut EXCEPT !.op = "mark_attempted", !.ret = "Ok", !.message_id = message_id]
    /\ UNCHANGED <<local_keypair, receipts, uuids>>
    /\ UNCHANGED <<overlay_vars, envelope_vars, account_vars, caller_vars>>

QueueNext ==
    \/ \E e \in QueueEnvelopes : Enqueue(e)
    \/ Peek
    \/ \E m \in 1..(MaxSend + 1) : QueueRemove(m)
    \/ \E m \in 1..(MaxSend + 1) : MarkAttempted(m)

QueueInit == OverlayIdle /\ PipelineNew /\ EnvelopeNew /\ AccountNew /\ CallersNew

QueueSpec == QueueInit /\ [][QueueNext]_vars

\* The receipt log of a pipeline whose keypair is installed: the calls that
\* append to it and the one that reads it. The ids are those the pipeline
\* generated, the ones of other devices, and one nobody used.
ReceiptIds == ReceivedIds \cup {MaxSend + MaxForeign + 1}
ReceiptEnvelopes ==
    {e \in ReceivedEnvelopes :
        /\ base64_decode_ok(e.pgp_envelope.encrypted_payload)
        /\ base64_decode(e.pgp_envelope.encrypted_payload).to = cert(local_keypair)
        /\ base64_decode(e.pgp_envelope.encrypted_payload).signed_by = local_keypair
        /\ base64_decode(e.pgp_envelope.encrypted_payload).body = 1}

ReceiptNext ==
    \/ \E ok \in BOOLEAN : SendMessage(local_keypair, 1, ok)
    \/ \E e \in ReceiptEnvelopes : ReceiveEnvelope(e, cert(local_keypair))
    \/ \E m \in ReceiptIds : MarkSent(m)
    \/ \E m \in ReceiptIds : MarkFailed(m)
    \/ \E m \in ReceiptIds : GetReceipts(m)

ReceiptInit ==
    /\ OverlayIdle
    /\ EnvelopeNew /\ AccountNew /\ CallersNew
    /\ local_keypair = 1
    /\ queue = <<>>
    /\ receipts = EmptyTree
    /\ uuids = 0
    /\ out = [NoOut EXCEPT !.op = "set_keypair", !.ret = "Ok"]

ReceiptSpec == ReceiptInit /\ [][ReceiptNext]_vars

\* ------------------------------------------------ the store's properties
PendingSet(record) == Range(record.pending_peers)
AckedSet(record) == Range(record.acked_peers)
Strings(ps) == {to_string(p) : p \in ps}
LoadedFor(loaded, m) == {i \in 1..Len(loaded) : loaded[i].message_id = m}

PendingAckedDisjoint ==
    \A m \in DOMAIN db.replication :
        PendingSet(db.replication[m]) \cap AckedSet(db.replication[m]) = {}

\* C4: insert_outbound on an existing record stores the new envelope and makes
\* pending_peers (old pending_peers \cup new peers) minus acked_peers.
InsertOutboundUnions ==
    [][ (last'.op = "insert_outbound" /\ last'.ret = "Ok"
           /\ last'.message_id \in DOMAIN db.replication) =>
          LET m == last'.message_id
              old == db.replication[m]
              new == db'.replication[m]
          IN  /\ new.envelope = inserted'[m].envelope
              /\ PendingSet(new) =
                    (PendingSet(old) \cup Strings(inserted'[m].peers)) \ AckedSet(old)
      ]_vars

\* C5: mark_peer_success(message_id, peer) moves peer from pending_peers to
\* acked_peers; it returns true and deletes the record exactly when pending_peers
\* became empty, else returns false and keeps the record; without a record it
\* returns true and changes nothing. Other records are never touched.
MarkPeerSuccessContract ==
    [][ (last'.op = "mark_peer_success" /\ last'.ret # "Err") =>
          LET m == last'.message_id
              peer_str == to_string(last'.peer)
              old == db.replication
              new == db'.replication
          IN  /\ \A k \in MessageIds \ {m} :
                    /\ (k \in DOMAIN new) = (k \in DOMAIN old)
                    /\ k \in DOMAIN old => new[k] = old[k]
              /\ m \notin DOMAIN old => (last'.ret = "Ok(true)" /\ new = old)
              /\ m \in DOMAIN old =>
                    IF PendingSet(old[m]) \ {peer_str} = {}
                    THEN last'.ret = "Ok(true)" /\ m \notin DOMAIN new
                    ELSE /\ last'.ret = "Ok(false)"
                         /\ m \in DOMAIN new
                         /\ PendingSet(new[m]) = PendingSet(old[m]) \ {peer_str}
                         /\ AckedSet(new[m]) = AckedSet(old[m]) \cup {peer_str}
                         /\ new[m].envelope = old[m].envelope
              /\ disk' = db'
      ]_vars

\* C5 witness: a mark_peer_success that left the record in place with the peer
\* acked, another peer still pending.
MarkPeerSuccessWitness ==
    /\ last.op = "mark_peer_success" /\ last.ret = "Ok(false)"
    /\ last.message_id \in DOMAIN db.replication
    /\ to_string(last.peer) \in AckedSet(db.replication[last.message_id])
    /\ PendingSet(db.replication[last.message_id]) # {}

\* C6: load_pending returns exactly the stored records whose pending_peers is not
\* empty, one entry per message id, with the stored envelope and pending peers;
\* after insert_outbound(id, e, P) and mark_peer_success(id, p) for the peers of
\* S it holds id with pending peers P \ S when that is not empty, and does not
\* hold id otherwise.
LoadPendingExact ==
    LET loaded == load_pending(db.replication)
    IN  \A m \in MessageIds :
          LET idx == LoadedFor(loaded, m)
          IN  /\ Cardinality(idx) <= 1
              /\ (idx # {}) <=>
                    (m \in DOMAIN db.replication /\ db.replication[m].pending_peers # <<>>)
              /\ \A i \in idx :
                    /\ MapToString(loaded[i].pending_peers) = db.replication[m].pending_peers
                    /\ loaded[i].envelope = db.replication[m].envelope
              /\ inserted[m].called =>
                    LET rest == inserted[m].peers \ inserted[m].marked
                    IN  IF rest = {} THEN idx = {}
                        ELSE \E i \in idx : Range(loaded[i].pending_peers) = rest

\* C6 witness: two peers inserted, one of them acknowledged, the other one is
\* what load_pending reports.
LoadPendingWitness ==
    \E m \in MessageIds :
        /\ inserted[m].called
        /\ inserted[m].marked # {}
        /\ inserted[m].marked \subseteq inserted[m].peers
        /\ inserted[m].marked # inserted[m].peers
        /\ LoadedFor(load_pending(db.replication), m) # {}

\* ---------------------------------------------- the runtime's properties
PublishedOk(m) == last.op = "publish" /\ last.reply = "Ok" /\ last.message_id = m
Targets(m) == {p \in PeerIds : to_string(p) \in PendingSet(db.replication[m])}
Acked(m, p) == last.op = "response" /\ last.events = <<PublishAck(m, p)>>

\* C1: at-least-once delivery. With the runtime up, a stable non-empty peer set,
\* a fair retry tick and fair answers, every Publish answered Ok is eventually
\* followed by a PublishAck for its message id from one of its target peers.
AtLeastOnce ==
    \A m \in TrafficIds : \A T \in SUBSET PeerIds :
        (PublishedOk(m) /\ Targets(m) = T) ~> (\E p \in T : Acked(m, p))

\* C1 witness: a PublishAck was just emitted.
AtLeastOnceWitness ==
    \E m \in TrafficIds, p \in PeerIds : Acked(m, p) /\ last.ret = "Ok(true)"

\* C7: inbound storage is idempotent by message id. Every delivery of an
\* envelope that the store takes is answered accepted = true and leaves one
\* record under its message id, holding that envelope; a repeated delivery adds
\* no record and leaves the record's envelope as it was; other records are not
\* touched.
InboundIdempotent ==
    [][ (last'.op = "request" /\ last'.ret = "Ok") =>
          LET e == last'.envelope
              m == e.message_id
              old == db.inbound
              new == db'.inbound
          IN  /\ last'.accepted = "true"
              /\ DOMAIN new = (DOMAIN old) \cup {m}
              /\ new[m].envelope = e
              /\ \A k \in (DOMAIN old) \ {m} : new[k] = old[k]
              /\ (delivered[m].times >= 1 /\ delivered[m].envelope = e) =>
                    /\ DOMAIN new = DOMAIN old
                    /\ new[m].envelope = old[m].envelope
              /\ disk'.inbound = new
      ]_vars

\* C7 witness: the same envelope was just stored for the second time in a row,
\* with another timestamp than a first delivery at time 0 would have left.
InboundIdempotentWitness ==
    /\ last.op = "request" /\ last.accepted = "true"
    /\ delivered[last.message_id].times >= 2
    /\ db.inbound[last.message_id].stored_ms > 0

\* C8: the in-flight map never holds two requests for the same
\* (message_id, peer).
OnePerPair ==
    \A x \in BagToSet(pending_replications) : CopiesIn(x, pending_replications) <= 1

\* C8 witness: a retry tick found every pending pair in flight and sent nothing.
OnePerPairWitness ==
    /\ last.op = "retry" /\ last.ret = "Ok" /\ last.sent = <<>>
    /\ \E m \in DOMAIN db.replication : \E p \in PeerIds :
          /\ to_string(p) \in PendingSet(db.replication[m])
          /\ BagIn(<<m, p>>, pending_replications)

\* C9: a Publish handled while the peer set is empty is answered with an error,
\* emits PublishFailed "no peers available", writes nothing to the store, sends
\* no request, leaves the in-flight map as it is, and the runtime keeps running.
NoPeersNoEffect ==
    [][ (last'.op = "publish" /\ peers = <<>>) =>
          /\ last'.reply = "Err"
          /\ last'.events = <<PublishFailed(last'.message_id, "no peers available")>>
          /\ last'.sent = <<>>
          /\ db' = db /\ disk' = disk
          /\ pending_replications' = pending_replications
          /\ phase' = "running"
      ]_vars

\* C9 witness: a Publish just failed for want of peers while an earlier request
\* is still in flight.
NoPeersWitness ==
    /\ last.op = "publish" /\ last.reply = "Err"
    /\ last.events = <<PublishFailed(last.message_id, "no peers available")>>
    /\ pending_replications # EmptyBag
    /\ phase = "running"

\* What a Publish with some peers persisted and sent, for n expected targets.
PublishTargets(n) ==
    LET m == last'.message_id
        record == db'.replication[m]
    IN  /\ Len(record.pending_peers) = n
        /\ Cardinality(PendingSet(record)) = n
        /\ PendingSet(record) \subseteq Strings(Range(peers))
        /\ (\A p \in PeerIds : ~BagIn(<<m, p>>, pending_replications)) =>
              /\ Len(last'.sent) = n
              /\ Strings({last'.sent[i].peer : i \in 1..Len(last'.sent)}) = PendingSet(record)
              /\ \A i \in 1..Len(last'.sent) : last'.sent[i].envelope = last'.envelope

\* C10 as stated: the persisted target set has min(replication_factor, |peers|)
\* peers for every configured replication_factor, 0 included.
PublishTargetsMin ==
    [][ (last'.op = "publish" /\ last'.ret = "Ok") =>
          PublishTargets(Min(config, Len(peers))) ]_vars

\* C10 amended: the persisted target set has
\* min(max(replication_factor, 1), |peers|) peers, all distinct and all of the
\* current peer set; with nothing in flight for the message that many requests
\* are sent, one per target, each carrying the published envelope.
PublishTargetsClamped ==
    [][ (last'.op = "publish" /\ last'.ret = "Ok") =>
          PublishTargets(Min(Max(config, 1), Len(peers))) ]_vars

\* C10 witness: replication_factor 0 is configured, two peers are known and the
\* Publish sent one request.
PublishTargetsWitness ==
    /\ last.op = "publish" /\ last.ret = "Ok"
    /\ config = 0 /\ Len(peers) = 2
    /\ Len(last.sent) = 1

SentTo(sent, m, p) ==
    \E i \in 1..Len(sent) : sent[i].peer = p /\ sent[i].envelope.message_id = m

\* C12: a response with accepted = false for an in-flight (message_id, peer)
\* emits PublishFailed "replication rejected", leaves the store as it is, removes
\* the in-flight entry, and the next retry tick re-sends the envelope to that
\* peer.
ReplicationRejected ==
    [][ /\ (last'.op = "response" /\ last'.accepted = "false") =>
              /\ last'.events = <<PublishFailed(last'.message_id, "replication rejected")>>
              /\ db' = db /\ disk' = disk
              /\ pending_replications' =
                    pending_replications (-) Entry(last'.message_id, last'.peer)
              /\ ~BagIn(<<last'.message_id, last'.peer>>, pending_replications')
        /\ (last.op = "response" /\ last.accepted = "false"
              /\ last'.op = "retry" /\ last'.ret = "Ok") =>
              SentTo(last'.sent, last.message_id, last.peer)
      ]_vars

\* C13: an OutboundFailure for an in-flight request drops the in-flight entry,
\* emits PublishFailed for its message id and leaves the store unchanged; the
\* (message_id, peer) pair is still pending there and the next retry tick
\* re-sends it.
OutboundFailureRetried ==
    [][ /\ last'.op = "outbound_failure" =>
              /\ pending_replications' =
                    pending_replications (-) Entry(last'.message_id, last'.peer)
              /\ ~BagIn(<<last'.message_id, last'.peer>>, pending_replications')
              /\ last'.events = <<PublishFailed(last'.message_id, "outbound failure")>>
              /\ db' = db /\ disk' = disk
              /\ last'.message_id \in DOMAIN db'.replication
              /\ to_string(last'.peer) \in PendingSet(db'.replication[last'.message_id])
        /\ (last.op = "outbound_failure" /\ last'.op = "retry" /\ last'.ret = "Ok") =>
              SentTo(last'.sent, last.message_id, last.peer)
      ]_vars

\* The (message_id, peer) pairs the store lists as pending.
PendingPairs(tree) ==
    {x \in MessageIds \X PeerIds :
        x[1] \in DOMAIN tree /\ to_string(x[2]) \in PendingSet(tree[x[1]])}

\* C14: a retry tick that could read the store handles every pending pair of
\* every record: for a pair in flight it sends nothing and emits nothing; for
\* any other it emits exactly one PublishRetry{message_id, peer}, issues exactly
\* one request carrying the stored envelope to that peer and enters the pair in
\* the in-flight map. Nothing else is sent or emitted and the store is not
\* written. The tick looks at the store and the in-flight map only: no count of
\* earlier retries limits it.
RetryTickExact ==
    [][ (last'.op = "retry" /\ last'.ret = "Ok") =>
          LET pend == PendingPairs(db.replication)
              due == {x \in pend : ~BagIn(x, pending_replications)}
              retries(x) == {i \in 1..Len(last'.events) :
                                last'.events[i] = PublishRetry(x[1], x[2])}
              requests(x) == {i \in 1..Len(last'.sent) : last'.sent[i].peer = x[2]
                                 /\ last'.sent[i].envelope.message_id = x[1]}
          IN  /\ \A x \in pend \ due :
                    /\ retries(x) = {} /\ requests(x) = {}
                    /\ CopiesIn(x, pending_replications') = CopiesIn(x, pending_replications)
              /\ \A x \in due :
                    /\ Cardinality(retries(x)) = 1
                    /\ Cardinality(requests(x)) = 1
                    /\ \A i \in requests(x) :
                          last'.sent[i].envelope = db.replication[x[1]].envelope
                    /\ CopiesIn(x, pending_replications') = 1
              /\ Len(last'.events) = Cardinality(due)
              /\ Len(last'.sent) = Cardinality(due)
              /\ db' = db /\ disk' = disk
      ]_vars

\* C14 witness: a retry tick re-sent to one pending peer of a record and skipped
\* the other, which was in flight.
RetryTickWitness ==
    /\ last.op = "retry" /\ last.ret = "Ok"
    /\ Len(last.sent) = 1 /\ Len(last.events) = 1
    /\ \E m \in DOMAIN db.replication : Cardinality(PendingSet(db.replication[m])) = 2

\* C15: on start the pending set is replayed once, before any command is
\* processed. The step that brings the runtime up is the replay: with the store
\* readable it sends, for every pending pair the store held before the restart,
\* exactly one request with the stored envelope (and one PublishRetry), with no
\* Publish involved and the store not written; no command is handled while the
\* runtime is not up. When the peer of a record with that one pending peer then
\* answers accepted = true, the record is deleted and load_pending no longer
\* returns the message.
StartupReplay ==
    [][ /\ (phase = "stopped" /\ phase' = "running") => last'.op = "start"
        /\ last'.op \in {"publish", "shutdown"} => phase = "running"
        /\ (last'.op = "start" /\ last'.ret = "Ok") =>
              LET pend == PendingPairs(db.replication)
              IN  /\ Len(last'.sent) = Cardinality(pend)
                  /\ Len(last'.events) = Cardinality(pend)
                  /\ \A x \in pend :
                        /\ \E i \in 1..Len(last'.sent) :
                              last'.sent[i] = [peer |-> x[2],
                                               envelope |-> db.replication[x[1]].envelope]
                        /\ \E i \in 1..Len(last'.events) :
                              last'.events[i] = PublishRetry(x[1], x[2])
                        /\ CopiesIn(x, pending_replications') = 1
                  /\ db' = db /\ disk' = disk
        /\ (last.op = "start" /\ last'.op = "response" /\ last'.accepted = "true"
              /\ last'.ret # "Err"
              /\ PendingPairs(db.replication) = {<<last'.message_id, last'.peer>>}) =>
              /\ SentTo(last.sent, last'.message_id, last'.peer)
              /\ last'.message_id \notin DOMAIN db'.replication
              /\ load_pending(db'.replication) = <<>>
              /\ load_pending(disk'.replication) = <<>>
      ]_vars

\* C15 witness: the runtime was just started over a store that held one record
\* with one pending peer, and the replay sent that one request.
StartupReplayWitness ==
    /\ last.op = "start" /\ last.ret = "Ok"
    /\ Len(last.sent) = 1
    /\ \E m \in DOMAIN db.replication :
          /\ PendingSet(db.replication[m]) = {to_string(last.sent[1].peer)}
          /\ last.sent[1].envelope = db.replication[m].envelope
    /\ pending_replications = Entry(last.sent[1].envelope.message_id, last.sent[1].peer)

ShutdownEndsTask ==
    /\ last'.op = "shutdown" =>
          /\ phase = "running" /\ phase' = "stopped"
          /\ last'.reply = "Ok" /\ last'.events = <<>> /\ last'.sent = <<>>
          /\ db' = db /\ disk' = disk
    /\ phase = "stopped" => last'.op \in {"start", "publish_dropped", "dial_dropped"}
    /\ last'.op \in {"publish_dropped", "dial_dropped"} =>
          /\ phase = "stopped" /\ phase' = "stopped"
          /\ db' = db /\ disk' = disk
          /\ pending_replications' = pending_replications
          /\ last'.sent = <<>> /\ last'.ret = "none"

\* C17 as stated: in addition no event at all comes from a Publish or Dial that
\* arrives after the Shutdown.
ShutdownSilent ==
    [][ /\ ShutdownEndsTask
        /\ last'.op \in {"publish_dropped", "dial_dropped"} => last'.events = <<>>
      ]_vars

\* C17 amended: the only event that comes from a Publish that arrives after the
\* Shutdown is the PublishFailed "publish channel error" of its caller, and only
\* for a command that was queued; none comes from a Dial.
ShutdownStops ==
    [][ /\ ShutdownEndsTask
        /\ last'.op = "dial_dropped" => last'.events = <<>>
        /\ last'.op = "publish_dropped" =>
              last'.events \in {<<>>, <<PublishFailed(last'.message_id,
                                                      "publish channel error")>>}
        /\ last'.op = "publish_dropped" => last'.reply = "Err"
      ]_vars

\* C17 witness: a Publish that was queued behind the Shutdown was dropped while
\* the store holds a pending record and the peer set was not empty at shutdown.
ShutdownStopsWitness ==
    /\ last.op = "publish_dropped" /\ phase = "stopped"
    /\ last.events = <<PublishFailed(last.message_id, "publish channel error")>>
    /\ PendingPairs(db.replication) # {}

\* --------------------------------------------- the pipeline's properties
QueuedIds(q) == {q[i].envelope.message_id : i \in 1..Len(q)}
LastOf(log) == log[Len(log)]

\* Whether the overlay would answer a Publish command with Ok.
PublishWouldSucceed == phase = "running" /\ ~no_peers(peers)

\* C18: a send_message that wrapped and enqueued its envelope publishes it
\* through the overlay and appends a receipt that tells the outcome: Queued, with
\* the overlay holding the message, when the Publish command succeeded, Failed
\* when it failed.
SendPublishes ==
    [][ (out'.op = "send_message" /\ out'.ret = "Ok") =>
          LET m == out'.message_id
              status == LastOf(get_receipts(receipts', m)).status
          IN  IF PublishWouldSucceed
              THEN status = "Queued" /\ m \in DOMAIN db'.replication
              ELSE status = "Failed"
      ]_vars

\* C19: a successful send_message returns a message id this pipeline has not
\* used before, appends one entry for it (attempts 0) at the back of the queue,
\* the earlier entries unchanged, and makes the id's receipt log the single
\* receipt Queued, the other logs unchanged.
SendAppends ==
    [][ (out'.op = "send_message" /\ out'.ret = "Ok") =>
          LET m == out'.message_id
          IN  /\ m > uuids /\ m \notin QueuedIds(queue) /\ m \notin DOMAIN receipts
              /\ Len(queue') = Len(queue) + 1
              /\ SubSeq(queue', 1, Len(queue)) = queue
              /\ LastOf(queue').envelope.message_id = m
              /\ LastOf(queue').envelope.pgp_envelope.message_id = m
              /\ LastOf(queue').attempts = 0
              /\ get_receipts(receipts', m) = <<MessageReceipt(m, "Queued")>>
              /\ DOMAIN receipts' = (DOMAIN receipts) \cup {m}
              /\ \A k \in DOMAIN receipts : receipts'[k] = receipts[k]
      ]_vars

\* C19 witness: the second successful send: two entries queued, the newer one
\* at the back.
SendAppendsWitness ==
    /\ out.op = "send_message" /\ out.ret = "Ok"
    /\ Len(queue) = 2
    /\ queue[2].envelope.message_id = out.message_id
    /\ queue[1].envelope.message_id # out.message_id

\* Whether a payload decrypts under keypair and verifies under sender_cert.
Opens(payload, keypair, sender_cert) ==
    /\ keypair # 0
    /\ base64_decode_ok(payload)
    /\ base64_decode(payload).to = cert(keypair)
    /\ base64_decode(payload).signed_by = sender_cert
    /\ base64_decode(payload).intact

\* C20: receive_envelope returns the plaintext and appends exactly one Delivered
\* receipt to the message's log when decryption and signature verification
\* succeed; when they fail it returns a Crypto error and appends nothing. In
\* both cases the queue, the other logs and the store are left as they are.
ReceiveContract ==
    [][ out'.op = "receive_envelope" =>
          /\ queue' = queue /\ db' = db /\ disk' = disk
          /\ IF Opens(out'.payload, local_keypair, out'.sender_cert)
             THEN /\ out'.ret = "Ok"
                  /\ out'.body = base64_decode(out'.payload).body
                  /\ get_receipts(receipts', out'.message_id) =
                        Append(get_receipts(receipts, out'.message_id),
                               MessageReceipt(out'.message_id, "Delivered"))
                  /\ \A k \in (DOMAIN receipts) \ {out'.message_id} :
                        k \in DOMAIN receipts' /\ receipts'[k] = receipts[k]
                  /\ DOMAIN receipts' = (DOMAIN receipts) \cup {out'.message_id}
             ELSE /\ out'.ret \in {"Crypto(decryption failed)",
                                    "Crypto(keypair not initialized)"}
                  /\ out'.body = 0
                  /\ receipts' = receipts
      ]_vars

\* C20 witness: an envelope encrypted to this pipeline and signed by the stated
\* sender, but changed on the way, was just refused, while the inbound store
\* holds an envelope and a receipt log exists.
ReceiveContractWitness ==
    /\ out.op = "receive_envelope" /\ out.ret = "Crypto(decryption failed)"
    /\ base64_decode_ok(out.payload)
    /\ base64_decode(out.payload).to = cert(local_keypair)
    /\ base64_decode(out.payload).signed_by = out.sender_cert
    /\ ~base64_decode(out.payload).intact
    /\ DOMAIN db.inbound # {}
    /\ DOMAIN receipts # {}

\* What a send or receive before any set_keypair leaves behind: nothing queued,
\* no receipt appended, none sent.
NoEffect ==
    /\ queue' = queue /\ receipts' = receipts /\ out'.emitted = <<>>
    /\ local_keypair' = local_keypair

\* C21: send_message and receive_envelope called before any set_keypair fail
\* with the error Pipeline(NotInitialized) and have no effect.
NotInitializedKind ==
    [][ (out'.op \in {"send_message", "receive_envelope"} /\ local_keypair = 0) =>
          out'.ret = "Pipeline(NotInitialized)" /\ NoEffect ]_vars

\* C21 (as the code has it): send_message and receive_envelope called before
\* any set_keypair fail with Crypto("keypair not initialized") and have no
\* effect; once a keypair is set neither call fails with that error again.
NotInitializedRefused ==
    [][ out'.op \in {"send_message", "receive_envelope"} =>
          IF local_keypair = 0
          THEN out'.ret = "Crypto(keypair not initialized)" /\ NoEffect
          ELSE out'.ret # "Crypto(keypair not initialized)" ]_vars

\* C21 witness: an envelope that a keypair could open was refused because no
\* keypair is set.
NotInitializedWitness ==
    /\ local_keypair = 0
    /\ out.op = "receive_envelope" /\ out.ret = "Crypto(keypair not initialized)"
    /\ base64_decode_ok(out.payload)
    /\ base64_decode(out.payload).intact
    /\ base64_decode(out.payload).signed_by = out.sender_cert

\* The receipt an appending call makes.
StatusOf(op) ==
    CASE op = "send_message" -> "Queued"
      [] op = "receive_envelope" -> "Delivered"
      [] op = "mark_sent" -> "Sent"
      [] op = "mark_failed" -> "Failed"
      [] OTHER -> "none"

Changed == {m \in (DOMAIN receipts) \cup (DOMAIN receipts') :
                get_receipts(receipts', m) # get_receipts(receipts, m)}

\* C22: the receipt log of each message id is append-only. A send_message,
\* receive_envelope, mark_sent or mark_failed that returns Ok appends exactly one
\* receipt (Queued, Delivered, Sent, Failed) at the end of that message's log;
\* nothing else changes any log; get_receipts returns the log in append order,
\* empty for an unknown id.
ReceiptsAppendOnly ==
    [][ /\ DOMAIN receipts \subseteq DOMAIN receipts'
        /\ IF StatusOf(out'.op) # "none" /\ out'.ret = "Ok"
           THEN /\ Changed = {out'.message_id}
                /\ get_receipts(receipts', out'.message_id) =
                      Append(get_receipts(receipts, out'.message_id),
                             MessageReceipt(out'.message_id, StatusOf(out'.op)))
           ELSE Changed = {}
        /\ out'.op = "get_receipts" =>
              /\ out'.returned = get_receipts(receipts, out'.message_id)
              /\ out'.message_id \notin DOMAIN receipts => out'.returned = <<>>
      ]_vars

\* C22 witness: mark_failed has just appended to a log that began with Queued,
\* while another message has a log of its own.
ReceiptsAppendOnlyWitness ==
    /\ out.op = "mark_failed"
    /\ out.message_id \in DOMAIN receipts
    /\ Len(receipts[out.message_id]) = 2
    /\ receipts[out.message_id][1].status = "Queued"
    /\ receipts[out.message_id][2].status = "Failed"
    /\ \E k \in DOMAIN receipts : k # out.message_id

\* ------------------------------------------- the envelope's properties
Unaltered == wire.envelope = from_plaintext(wire.message, wire.sender, cert(wire.recipient))

\* C23: unwrapping with (B, A's certificate) the envelope obtained by wrapping
\* a message with (A, B's certificate) returns a message equal to the original in
\* message_id, conversation_id, sender_device, created_ms and body.
EnvelopeRoundTrip ==
    (/\ wire.op = "unwrap" /\ Unaltered
     /\ wire.keypair = wire.recipient /\ wire.sender_cert = cert(wire.sender))
    => /\ wire.result.ok
       /\ wire.result.message = wire.message
       /\ wire.result.message.message_id = wire.message.message_id
       /\ wire.result.message.conversation_id = wire.message.conversation_id
       /\ wire.result.message.sender_device = wire.message.sender_device
       /\ wire.result.message.created_ms = wire.message.created_ms
       /\ wire.result.message.body = wire.message.body

\* C23 witness: a message with a late clock reading, wrapped by one keypair for
\* another, came back from the unwrap.
EnvelopeRoundTripWitness ==
    /\ wire.op = "unwrap" /\ Unaltered
    /\ wire.keypair = wire.recipient /\ wire.sender_cert = cert(wire.sender)
    /\ wire.sender # wire.recipient
    /\ wire.message.created_ms = MaxStoredMs
    /\ wire.message.body = MaxBody

\* C24: unwrap succeeds only when the sender certificate passed to it belongs
\* to the key that signed the message; with any other certificate it fails, and
\* the outcome does not depend on the envelope's sender_fingerprint field.
SignatureRequired ==
    wire.op = "unwrap" =>
        /\ wire.result.ok =>
              cert(base64_decode(wire.envelope.encrypted_payload).signed_by) = wire.sender_cert
        /\ wire.result.ok =
              into_plaintext([wire.envelope EXCEPT !.sender_fingerprint =
                                  fingerprint(wire.sender_cert)],
                             wire.keypair, wire.sender_cert).ok
        /\ \A f \in HeaderValues("sender_fingerprint") :
              into_plaintext([wire.envelope EXCEPT !.sender_fingerprint = f],
                             wire.keypair, wire.sender_cert).ok = wire.result.ok
        /\ (/\ wire.keypair = wire.recipient
            /\ base64_decode(wire.envelope.encrypted_payload).intact)
           => (wire.result.ok <=> wire.sender_cert = cert(wire.sender))

\* C24 witness: an envelope whose header claims another key's fingerprint than
\* the one that signed it was unwrapped with the signer's certificate, and the
\* unwrap succeeded.
SignatureRequiredWitness ==
    /\ wire.op = "unwrap" /\ wire.result.ok
    /\ wire.envelope.sender_fingerprint # fingerprint(wire.sender)
    /\ wire.sender_cert = cert(wire.sender)
    /\ wire.envelope.sender_fingerprint \in HeaderValues("sender_fingerprint")

\* C25: if message_id, conversation_id, sender_device or created_ms in an
\* envelope's header is changed while the ciphertext is left intact, unwrap
\* fails instead of returning a message that carries the altered values.
MetadataBound ==
    (/\ wire.op = "unwrap"
     /\ base64_decode(wire.envelope.encrypted_payload).intact
     /\ \E f \in HeaderFields \ {"sender_fingerprint"} :
           wire.envelope[f] # from_plaintext(wire.message, wire.sender,
                                             cert(wire.recipient))[f])
    => ~wire.result.ok

\* ------------------------------------------ the account store's properties
\* C26: login(p) on the account produced by create_account(u, p, k), p of at
\* least the minimum length, returns k unchanged; login with any other password
\* fails with the error Wrong password and returns no key material.
PasswordRoundTrip ==
    (login_out.op = "login" /\ account_file # <<>>) =>
        /\ Len(login_out.created_password) >= MinPasswordLen
        /\ IF login_out.password = login_out.created_password
           THEN login_out.ret = "Ok" /\ login_out.secret_key = login_out.created_key
           ELSE login_out.ret = "Wrong password" /\ login_out.secret_key = <<>>

\* C26 witness: a login with the password of minimum length the account was
\* created with has returned the key.
PasswordRoundTripWitness ==
    /\ login_out.op = "login" /\ login_out.ret = "Ok"
    /\ Len(login_out.password) = MinPasswordLen
    /\ login_out.secret_key = login_out.created_key
    /\ login_out.secret_key \in SecretKeys

\* --------------------------------- the store under concurrent callers
\* The tree after the calls of the callers in order, one after the other.
RECURSIVE InSequence(_, _)
InSequence(tree, order) ==
    IF order = <<>> THEN tree
    ELSE InSequence(write_back_atomic(tree, tasks.calls[Head(order)]), Tail(order))

Callers == {t \in Tasks : tasks.calls[t].pc = "done"}

\* C27: store mutations are atomic under concurrent callers: when the calls of
\* the callers have all returned, the replication tree is the one that some
\* sequential order of these calls produces from the tree they started on.
StoreCallsAtomic ==
    (Callers # {} /\ \A t \in Tasks : tasks.calls[t].pc # "got") =>
        \E order \in Orders(Callers) : db.replication = InSequence(tasks.base, order)

\* ------------------------------------------- the discovery's properties
\* The peers a Publish chose: those the stored record lists as pending.
Chosen(tree, m) == {q \in PeerIds : to_string(q) \in Range(tree[m].pending_peers)}

\* C28: the discovery peer set is exactly the set of peers inserted (as a
\* bootstrap peer or by RoutingUpdated) and not removed by a later
\* UnroutablePeer: an insertion adds its peer and nothing else, UnroutablePeer
\* removes its peer and nothing else, every other event leaves the set as it
\* is, and a Publish chooses its targets from the set as it is when the command
\* is processed.
DiscoveryExact ==
    [][ (phase = "running" /\ phase' = "running") =>
          /\ Len(peers') = Cardinality(Range(peers'))
          /\ Range(peers') =
                CASE last'.op = "routing_updated" -> Range(peers) \cup {last'.peer}
                  [] last'.op = "bootstrap" /\ last'.ret = "Ok" -> Range(peers) \cup {last'.peer}
                  [] last'.op = "unroutable_peer" -> Range(peers) \ {last'.peer}
                  [] OTHER -> Range(peers)
          /\ last'.op = "publish" =>
                /\ last'.reply = "Ok" =>
                      /\ Chosen(db'.replication, last'.message_id) \subseteq Range(peers)
                      /\ Chosen(db'.replication, last'.message_id) =
                            Range(take_targets(peers, replication_factor))
                      /\ \A i \in 1..Len(last'.sent) : last'.sent[i].peer \in Range(peers)
                /\ peers = <<>> => last'.reply = "Err" /\ last'.sent = <<>>
      ]_vars

\* C28 witness: UnroutablePeer has just removed one of two inserted peers and
\* the other one is still in the set, while a record of an earlier Publish to
\* both is stored.
DiscoveryExactWitness ==
    /\ last.op = "unroutable_peer"
    /\ Len(peers) = 1 /\ peers[1] # last.peer
    /\ \E m \in DOMAIN db.replication :
          Chosen(db.replication, m) = Range(peers) \cup {last.peer}

\* ------------------------------------------------ the queue's properties
\* C29: the message queue is FIFO. enqueue appends the envelope at the back
\* with attempts = 0; peek returns the oldest entry without removing it;
\* remove(id) removes and returns exactly the first entry with that id, keeping
\* the order of the others, and returns None leaving the queue unchanged when no
\* entry matches; mark_attempted(id) increments attempts of that entry only.
QueueFifo ==
    [][ LET m == out'.message_id
            hits == {i \in 1..Len(queue) : queue[i].envelope.message_id = m}
            first == CHOOSE i \in hits : \A j \in hits : i <= j
        IN  CASE out'.op = "enqueue" ->
                   /\ Len(queue') = Len(queue) + 1
                   /\ SubSeq(queue', 1, Len(queue)) = queue
                   /\ queue'[Len(queue')].envelope = out'.returned[1]
                   /\ queue'[Len(queue')].attempts = 0
              [] out'.op = "peek" ->
                   /\ queue' = queue
                   /\ out'.returned = IF queue = <<>> THEN <<>> ELSE <<queue[1]>>
              [] out'.op = "remove" ->
                   IF hits = {}
                   THEN out'.returned = <<>> /\ queue' = queue
                   ELSE /\ out'.returned = <<queue[first]>>
                        /\ Len(queue') = Len(queue) - 1
                        /\ \A i \in 1..Len(queue') :
                              queue'[i] = IF i < first THEN queue[i] ELSE queue[i + 1]
              [] out'.op = "mark_attempted" ->
                   /\ Len(queue') = Len(queue)
                   /\ \A i \in 1..Len(queue) :
                         queue'[i] = IF hits # {} /\ i = first
                                     THEN [queue[i] EXCEPT !.attempts = queue[i].attempts + 1]
                                     ELSE queue[i]
              [] OTHER -> TRUE
      ]_vars

\* C29 witness: of two queued entries with one message id, remove has returned
\* the older one and left the newer one behind another entry.
QueueFifoWitness ==
    /\ out.op = "remove" /\ out.returned # <<>>
    /\ Len(queue) = 2
    /\ queue[2].envelope.message_id = out.message_id
    /\ queue[2].envelope # out.returned[1].envelope
    /\ queue[1].envelope.message_id # out.message_id

\* ------------------------------------------- stored records never empty
\* C30: no stored replication record has an empty pending set, also after
\* insert_outbound was called with an empty peer list.
NoEmptyPending ==
    \A m \in DOMAIN db.replication : db.replication[m].pending_peers # <<>>

\* --------------------------------------------- one PublishQueued per Ok
\* C31: each Publish command the runtime answers Ok emits exactly one
\* PublishQueued for its message_id, also when the message is published again
\* while its targets are still in flight; a Publish answered with an error
\* emits no PublishQueued.
PublishQueuedOnce ==
    last.op = "publish" =>
        /\ last.reply = "Ok" =>
              SelectSeq(last.events, LAMBDA e : e.kind = "PublishQueued")
                  = <<PublishQueued(last.message_id)>>
        /\ last.reply = "Err" =>
              SelectSeq(last.events, LAMBDA e : e.kind = "PublishQueued") = <<>>

\* -------------------------------------------------- persist before send
\* C32: during Publish no request for a message is issued unless
\* insert_outbound for that message and its targets succeeded first, so every
\* in-flight request created by Publish has a durable pending record; if
\* insert_outbound fails the command is answered with an error, PublishFailed is
\* emitted, no request is issued and the in-flight map is unchanged.
PersistBeforeSend ==
    [][ last'.op = "publish" =>
          LET m == last'.message_id
          IN  /\ \A p \in PeerIds :
                    ( \/ \E i \in 1..Len(last'.sent) : last'.sent[i].peer = p
                      \/ /\ in_flight(pending_replications', m, p)
                         /\ ~in_flight(pending_replications, m, p) ) =>
                        /\ last'.ret = "Ok"
                        /\ m \in DOMAIN disk'.replication
                        /\ disk'.replication[m].envelope = last'.envelope
                        /\ Contains(disk'.replication[m].pending_peers, to_string(p))
              /\ last'.ret = "Err" =>
                    /\ last'.reply = "Err"
                    /\ last'.events = <<PublishFailed(m, "failed to persist envelope")>>
                    /\ last'.sent = <<>>
                    /\ pending_replications' = pending_replications
                    /\ db' = db /\ disk' = disk
      ]_vars

\* C32 witness: a Publish of a message that already had a record has just issued
\* a request to a peer that was no target before.
PersistBeforeSendWitness ==
    /\ last.op = "publish" /\ last.ret = "Ok"
    /\ Len(last.sent) = 1
    /\ \E p \in PeerIds : p # last.sent[1].peer /\ in_flight(pending_replications, last.message_id, p)
    /\ Contains(disk.replication[last.message_id].pending_peers, to_string(last.sent[1].peer))

\* ------------------------------------------- one answer per inbound request
\* C33: every inbound envelope request receives exactly one response, and its
\* accepted flag is true if and only if store_inbound succeeded for that
\* envelope: accepted = true is never sent for an envelope that was not durably
\* stored, and a storage failure is answered accepted = false without stopping
\* the loop.
RequestAnswered ==
    [][ last'.op = "request" =>
          LET e == last'.envelope
              m == e.message_id
          IN  /\ last'.accepted \in {"true", "false"}
              /\ last'.accepted = "true" <=> last'.ret = "Ok"
              /\ last'.accepted = "true" =>
                    /\ m \in DOMAIN disk'.inbound
                    /\ disk'.inbound[m].envelope = e
              /\ last'.accepted = "false" =>
                    /\ last'.ret = "Err"
                    /\ db' = db /\ disk' = disk
              /\ phase' = "running"
              /\ pending_replications' = pending_replications
              /\ last'.events = <<>>
      ]_vars

\* C33 witness: a request was just answered accepted = false after a storage
\* failure while an earlier envelope of that message id is stored, and the loop
\* is still running.
RequestAnsweredWitness ==
    /\ last.op = "request" /\ last.accepted = "false"
    /\ phase = "running"
    /\ last.message_id \in DOMAIN disk.inbound
    /\ disk.inbound[last.message_id].envelope # last.envelope

\* ------------------------------------- a stored inbound envelope is kept
\* C34: a second store_inbound for a message_id that already has an inbound
\* record leaves that record's envelope as it was (only stored_ms may be
\* refreshed), also when the second call carries an envelope whose content
\* differs from the stored one.
InboundEnvelopeKept ==
    [][ \A m \in DOMAIN db.inbound :
            (last'.op = "request" /\ last'.message_id = m) =>
                /\ m \in DOMAIN db'.inbound
                /\ db'.inbound[m].envelope = db.inbound[m].envelope
      ]_vars

\* ------------------------------------------------- unknown request ids
\* C35: a response or an outbound failure whose request id is not in the
\* in-flight map is ignored: the outbound store, the in-flight map and the
\* inbound store are unchanged and no replication event is emitted.
UnknownIgnored ==
    [][ last'.op = "unknown_request" =>
          /\ db' = db /\ disk' = disk
          /\ pending_replications' = pending_replications
          /\ last'.events = <<>> /\ last'.sent = <<>>
          /\ phase' = phase /\ peers' = peers
      ]_vars

\* C35 witness: a response with an unknown request id came in from a peer for
\* which a request is in flight, while both stores hold a record.
UnknownIgnoredWitness ==
    /\ last.op = "unknown_request" /\ last.reply = "response" /\ last.accepted = "true"
    /\ \E m \in TrafficIds : in_flight(pending_replications, m, last.peer)
    /\ DOMAIN db.replication # {} /\ DOMAIN db.inbound # {}

\* ------------------------------------------------------- shutdown drains
\* C36: a response that has already arrived for an in-flight request when the
\* Shutdown command is processed is still handled (mark_peer_success and
\* PublishAck for accepted = true) before the loop exits, so that ack is not
\* left to be re-sent after restart.
ShutdownDrains ==
    [][ (last'.op = "shutdown" /\ last'.accepted = "true") =>
          LET m == last'.message_id
              p == last'.peer
          IN  /\ \E i \in 1..Len(last'.events) : last'.events[i] = PublishAck(m, p)
              /\ m \in DOMAIN db'.replication =>
                    ~Contains(db'.replication[m].pending_peers, to_string(p))
      ]_vars

\* ------------------------------------------------- key rotation snapshots
\* C37: a send_message that has read the active keypair before a concurrent
\* set_keypair(new) takes effect completes entirely under the old key: the
\* envelope's sender_fingerprint and its signature both belong to the same
\* keypair (old or new, never a mix), and sends that start after set_keypair
\* returned use the new key.
RotationSnapshots ==
    [][ /\ \A t \in Tasks :
            /\ (sends[t].pc = "idle" /\ sends'[t].pc = "read") =>
                  sends'[t].keypair = local_keypair
            /\ (sends[t].pc = "read" /\ sends'[t].pc = "read") =>
                  sends'[t].keypair = sends[t].keypair
            /\ (sends[t].pc = "read" /\ sends'[t].pc = "idle" /\ out'.ret = "Ok") =>
                  LET sent == queue'[Len(queue')].envelope.pgp_envelope
                  IN  /\ Len(queue') = Len(queue) + 1
                      /\ sent.sender_fingerprint = fingerprint(sends[t].keypair)
                      /\ base64_decode(sent.encrypted_payload).signed_by = sends[t].keypair
        /\ \A i \in 1..Len(queue') :
              \E k \in Keys :
                 /\ queue'[i].envelope.pgp_envelope.sender_fingerprint = fingerprint(k)
                 /\ base64_decode(queue'[i].envelope.pgp_envelope.encrypted_payload).signed_by = k
      ]_vars

\* C37 witness: a send has just completed under the key it read, after a
\* set_keypair installed another key while it was in progress.
RotationSnapshotsWitness ==
    /\ out.op = "send_message" /\ out.ret = "Ok"
    /\ queue # <<>>
    /\ queue[Len(queue)].envelope.pgp_envelope.sender_fingerprint # fingerprint(local_keypair)
    /\ base64_decode(queue[Len(queue)].envelope.pgp_envelope.encrypted_payload).signed_by
           # local_keypair

\* -------------------------------------------------- in-flight bookkeeping
\* C38: every entry of the in-flight map corresponds to a request that was
\* issued (by Publish, startup replay or a retry tick) and not yet answered;
\* handling a Response or an OutboundFailure removes exactly the entry of that
\* request and no other, so if every request is eventually answered no
\* (message_id, peer) pair stays blocked from retry forever.
InFlightBookkeeping ==
    /\ [][ /\ \A m \in TrafficIds, p \in PeerIds :
                LET before == CopiesIn(<<m, p>>, pending_replications)
                    after == CopiesIn(<<m, p>>, pending_replications')
                    issued == {i \in 1..Len(last'.sent) :
                                  /\ last'.sent[i].peer = p
                                  /\ last'.sent[i].envelope.message_id = m}
                IN  IF last'.op \in {"publish", "start", "retry"}
                    THEN after = before + Cardinality(issued)
                    ELSE IF last'.op \in {"response", "outbound_failure"}
                              /\ last'.message_id = m /\ last'.peer = p
                    THEN before >= 1 /\ after = before - 1
                    ELSE after = before
            /\ BagToSet(pending_replications') \subseteq TrafficIds \X PeerIds
          ]_vars
    /\ \A m \in TrafficIds, p \in PeerIds :
          in_flight(pending_replications, m, p) ~> ~in_flight(pending_replications, m, p)

\* C38 witness: of two requests in flight for one message, the failure of one
\* was just handled and the other is still in flight.
InFlightBookkeepingWitness ==
    /\ last.op = "outbound_failure"
    /\ ~in_flight(pending_replications, last.message_id, last.peer)
    /\ \E p \in PeerIds : p # last.peer /\ in_flight(pending_replications, last.message_id, p)

\* --------------------------------------------- what publish returns
\* C39: ReplicationService::publish always completes and never reports a
\* success the runtime did not give: it returns Ok only if the runtime answered
\* that Publish command with Ok; if the runtime has already exited it returns an
\* error without emitting an event, and if the runtime exits while the command
\* is queued but unanswered it returns an error and emits PublishFailed for the
\* message_id.
PublishReturns ==
    [][ /\ last'.op \in {"publish", "publish_dropped"} => last'.reply \in {"Ok", "Err"}
        /\ (last'.op \in {"publish", "publish_dropped"} /\ last'.reply = "Ok") =>
              /\ last'.op = "publish"
              /\ phase = "running"
              /\ last'.ret = "Ok"
              /\ last'.message_id \in DOMAIN disk'.replication
        /\ last'.op = "publish_dropped" =>
              /\ last'.reply = "Err"
              /\ last'.events = IF last'.queued
                                THEN <<PublishFailed(last'.message_id, "publish channel error")>>
                                ELSE <<>>
              /\ db' = db /\ disk' = disk
              /\ pending_replications' = pending_replications
      ]_vars

\* C39 witness: a Publish that was queued behind the Shutdown has returned its
\* error after a Publish of the same message had been answered Ok by the runtime.
PublishReturnsWitness ==
    /\ last.op = "publish_dropped" /\ last.queued
    /\ last.events = <<PublishFailed(last.message_id, "publish channel error")>>
    /\ last.message_id \in DOMAIN disk.replication

====
